---- MODULE Spec2Model ----
(***************************************************************************)
(* A model of the push2reaper bridge: the mode dispatcher of               *)
(* Push2ReaperDaemon (src/src/main.py) with the modes' button and encoder  *)
(* handlers, the Reaper state store and its OSC feedback router, the OSC   *)
(* command client and the event bus.                                       *)
(*                                                                         *)
(* Normalized DAW values (Python floats in [0,1]) are integers counting    *)
(* thousandths: 0.716 is 716, the volume step 0.015 is 15.  The arithmetic *)
(* of the model is exact; IEEE rounding is not modelled.                   *)
(*                                                                         *)
(* A handler is a function from a world record (every field the handler    *)
(* can read or write, plus exc: an exception is propagating, and ret: the  *)
(* value returned) to a world record.  Every such function starts with     *)
(* "IF w.exc THEN w", so a raised exception skips the statements after it  *)
(* up to the place that catches it.                                        *)
(***************************************************************************)
EXTENDS Integers, Sequences, FiniteSets, TLC

VARIABLES
    running,          \* Push2ReaperDaemon._running
    mode,             \* Push2ReaperDaemon._mode
    previous_mode,    \* Push2ReaperDaemon._previous_mode
    shift_held,       \* Push2ReaperDaemon._shift_held
    lower_row_mode,   \* MixerMode._lower_row_mode
    encoder_mode,     \* MixerMode._encoder_mode
    fx_idx,           \* DeviceMode._fx_idx
    param_bank,       \* DeviceMode._param_bank
    page,             \* ScaleState.page
    bank_offset,      \* ReaperState.bank_offset
    selected_track,   \* ReaperState.selected_track
    tracks,           \* ReaperState.tracks, restricted to TrackNums
    master,           \* ReaperState.master_*
    transport,        \* ReaperState transport fields
    fx,               \* ReaperState.fx
    dirty,            \* ReaperState._dirty
    ops,              \* feedback messages, encoder turns and presses of one bounded run
    open,             \* history: the modes whose last lifecycle call is enter
    pairing_ok,       \* history: no enter on an entered mode, no exit on an idle one
    trace,            \* history: the mode calls made while handling the last event
    sent,             \* history: the OSC messages sent while handling the last event
    published,        \* history: state_changed events published by the last event
    unlocked,         \* history: store data the last event wrote outside ReaperState._lock
    ev,               \* history: the last event and how its handler ended
    toggle_pair,      \* history: progress of two consecutive scale toggles
    subscribers,      \* EventBus._subscribers
    done,             \* history: the last publish call that returned
    nudge,            \* the control a caller keeps nudging, and the last call
    bus,              \* the threads inside bus and store calls, step by step
    hw,               \* ButtonManager._states, PadManager._colors, the last calls
    pt,               \* PlaytimeClient: the mirror, _connected, the last reply
    streams,          \* PlaytimeClient: _running, the channel, the two loops
    loop,             \* Push2ReaperDaemon.run: where the display loop is
    router,           \* ReaperOSCServer: _server, its sockets and threads
    pads              \* ScaleState, PadManager, the drum mode's pads, the pads held

vars == <<running, mode, previous_mode, shift_held, lower_row_mode, encoder_mode, fx_idx,
          param_bank, page, bank_offset, selected_track, tracks, master,
          transport, fx, dirty, ops, open, pairing_ok, trace, sent, published,
          unlocked, ev, toggle_pair, subscribers, done, nudge, bus, hw, pt,
          streams, loop, router, pads>>

daemonVars == <<running, mode, previous_mode, shift_held, lower_row_mode, encoder_mode,
                fx_idx, param_bank, page, bank_offset, selected_track, tracks,
                master, transport, fx, dirty, open, pairing_ok, trace, sent,
                published, unlocked, ev, toggle_pair>>

busVars == <<subscribers, done>>

\* the variables of the step-by-step models
laterVars == <<bus, hw, pt, streams, loop, router, pads>>

None == "None"

Min(a, b) == IF a <= b THEN a ELSE b

Max(a, b) == IF a >= b THEN a ELSE b

\* list.index(x) for an x that is in the list, 0-based as in Python
IndexOf(s, x) == (CHOOSE i \in 1..Len(s) : s[i] = x) - 1

InSeq(s, x) == \E i \in 1..Len(s) : s[i] = x

(***************************************************************************)
(* Bounds of the model.                                                    *)
(***************************************************************************)
\* next_bank is pressed at most this many times beyond bank 0
MaxBanks == 1

\* the device mode's parameter bank and FX index go at most this high
MaxDeviceIdx == 1

\* feedback messages and encoder turns in one run
MaxStoreOps == 2

\* registrations the event bus holds at a time
MaxSubs == 3

\* encoder ticks per nudge call
MaxIncrement == 2

\* nudge calls in one run
MaxNudges == 3

\* the calls the threads make to the bus in one run of its step-by-step model
MaxBusCalls == 4

\* the calls the threads make to the store and the bus in one run of the
\* store's step-by-step model
MaxStoreCalls == 3

\* the replies the clip engine's streams deliver in one run
MaxReplies == 2

\* the streams of one loop that break in one run
MaxFailures == 2

\* the frames and the frame errors the display loop counts
MaxFrames == 2

\* the sockets the feedback server binds in one run
MaxListeners == 2

\* pad and button events of one run of the pads
MaxPadEvents == 4

\* calls of connect, start_streaming and stop on one PlaytimeClient
MaxClientCalls == 6

\* answers of the server to the refetches one batch causes
MaxAnswers == 3

(***************************************************************************)
(* Program constants.                                                      *)
(***************************************************************************)
\* one unit of a normalized value: 1.0
One == 1000

VOLUME_STEP == 15

PAN_STEP == 20

SEND_STEP == 15

FX_STEP == 10

BANK_SIZE == 8

ACTION_UNDO == 40029

ACTION_REDO == 40030

ACTION_FX_BROWSER == 40271

ACTION_FX_CHAIN == 40291

ACTION_INSERT_VIRTUAL_INSTRUMENT == 40346

ACTION_ADD_TRACK == 40702

ACTION_BROWSER_NEXT == 40001

DEFAULT_VOLUME == 716

DEFAULT_PAN == 500

DEFAULT_TEMPO == 120000

\* SCALE_PAGES + 1: two pages of scales and the settings page
TOTAL_PAGES == 3

\* playtime/client.py: the slot states of the session grid
SLOT_EMPTY == 0

SLOT_STOPPED == 1

SLOT_PLAYING == 2

SLOT_RECORDING == 3

SLOT_QUEUED == 4

Modes == {"mixer", "scale", "drum", "device", "session", "browser"}

UPPER_ROW == <<"upper_row_1", "upper_row_2", "upper_row_3", "upper_row_4",
               "upper_row_5", "upper_row_6", "upper_row_7", "upper_row_8">>

LOWER_ROW == <<"lower_row_1", "lower_row_2", "lower_row_3", "lower_row_4",
               "lower_row_5", "lower_row_6", "lower_row_7", "lower_row_8">>

\* the buttons _on_button tests for before it delegates to the mode
GlobalButtons == {"shift", "undo", "scale", "octave_up", "octave_down", "play",
                  "stop", "record", "metronome", "repeat", "page_left",
                  "page_right", "left", "right", "master", "add_device",
                  "add_track", "automate", "mix", "note", "device", "session",
                  "browse"}

\* buttons no handler of the daemon tests for: some modes handle them, some not
OtherButtons == {"mute", "solo", "up", "delete"}

RowButtons == {UPPER_ROW[i] : i \in 1..8} \cup {LOWER_ROW[i] : i \in 1..8}

Buttons == GlobalButtons \cup OtherButtons \cup RowButtons

\* the track numbers the modelled store holds and feedback addresses name
TrackNums == {1, 2}

(***************************************************************************)
(* Records of the model.                                                   *)
(***************************************************************************)
\* an OSC message of the command client: the address's operation, the track
\* and the indices in the address, and the value sent
Msg(op, track, sub, val) ==
    [op |-> op, track |-> track, sub |-> sub, sub2 |-> 0, val |-> val]

\* a message whose address names an FX and one of its parameters
FxMsg(op, track, sub, sub2, val) ==
    [op |-> op, track |-> track, sub |-> sub, sub2 |-> sub2, val |-> val]

\* a call the dispatcher makes on a mode
ModeCall(m, call, arg) == [mode |-> m, call |-> call, arg |-> arg]

\* str(x) of a payload: "0.8" for the float 0.8 and for the string "0.8"
Text(kind, val) == <<kind, val>>

NewSend(i) ==
    [name |-> Text("Send", i), volume |-> 0, volume_str |-> Text("-inf dB", 0),
     pan |-> DEFAULT_PAN]

NewParam(i) == [name |-> Text("Param", i), value |-> 0]

NewFX(i) == [name |-> Text("FX", i + 1), params |-> <<>>]

TrackInfo(i) ==
    [index |-> i, name |-> Text("Track", i), volume |-> DEFAULT_VOLUME, pan |-> DEFAULT_PAN,
     mute |-> FALSE, solo |-> FALSE, rec_arm |-> FALSE, selected |-> FALSE,
     vu |-> 0, vu_l |-> 0, vu_r |-> 0, volume_str |-> Text("0.0 dB", 0),
     pan_str |-> Text("<C>", 0), color |-> <<>>, automode |-> 0, sends |-> <<>>]

\* the world a handler runs in: the variables, no exception, nothing returned
Cur ==
    [running |-> running, mode |-> mode, previous_mode |-> previous_mode,
     shift_held |-> shift_held, lower_row_mode |-> lower_row_mode,
     encoder_mode |-> encoder_mode, fx_idx |-> fx_idx,
     param_bank |-> param_bank, page |-> page, bank_offset |-> bank_offset,
     selected_track |-> selected_track, tracks |-> tracks, master |-> master,
     transport |-> transport, fx |-> fx, dirty |-> dirty, open |-> open,
     pairing_ok |-> pairing_ok, trace |-> <<>>, sent |-> <<>>,
     published |-> 0, unlocked |-> {}, toggles |-> 0, exc |-> FALSE, ret |-> FALSE,
     num |-> 0]

\* an assignment to store data made outside `with self._lock`
WrittenUnlocked(w, what) == [w EXCEPT !.unlocked = @ \cup {what}]

Raise(w) == [w EXCEPT !.exc = TRUE]

Return(w, v) == IF w.exc THEN w ELSE [w EXCEPT !.ret = v]

\* return of a float
ReturnNum(w, v) == IF w.exc THEN w ELSE [w EXCEPT !.num = v]

(***************************************************************************)
(* Command client (reaper/osc_client.py).                                  *)
(***************************************************************************)
\* _send: run() connects the client before any event is handled
Send(w, m) == IF w.exc THEN w ELSE [w EXCEPT !.sent = Append(@, m)]

SendAll(w, ms) == IF w.exc THEN w ELSE [w EXCEPT !.sent = @ \o ms]

RECURSIVE DeselectDisarmFrom(_, _, _)
DeselectDisarmFrom(i, track_num, bank_size) ==
    IF i > bank_size THEN <<>>
    ELSE (IF i # track_num
          THEN <<Msg("select", i, 0, 0), Msg("recarm", i, 0, 0)>>
          ELSE <<>>) \o DeselectDisarmFrom(i + 1, track_num, bank_size)

SelectAndArmMsgs(track_num, bank_size) ==
    DeselectDisarmFrom(1, track_num, bank_size)
        \o <<Msg("select", track_num, 0, 1), Msg("recarm", track_num, 0, 1)>>

SelectAndArmTrack(w, track_num) == SendAll(w, SelectAndArmMsgs(track_num, BANK_SIZE))

TriggerAction(w, id) == Send(w, Msg("action", 0, 0, id))

\* max(0.0, min(1.0, value))
Clamp(value) == Max(0, Min(One, value))

SetTrackVolume(w, track_num, value) == Send(w, Msg("volume", track_num, 0, Clamp(value)))

SetTrackPan(w, track_num, value) == Send(w, Msg("pan", track_num, 0, Clamp(value)))

SetMasterVolume(w, value) == Send(w, Msg("master/volume", 0, 0, Clamp(value)))

SetSendVolume(w, track_num, send_idx, value) ==
    Send(w, Msg("send/volume", track_num, send_idx + 1, Clamp(value)))

SetFxParam(w, track_num, idx, param_idx, value) ==
    Send(w, FxMsg("fxparam/value", track_num, idx + 1, param_idx + 1, Clamp(value)))

NudgeTrackVolume(w, track_num, current, increment) ==
    LET new_val == Max(0, Min(One, current + increment * VOLUME_STEP))
    IN  ReturnNum(SetTrackVolume(w, track_num, new_val), new_val)

\* a faulty nudge_track_pan, which returns the value before clamping it
NudgeTrackPanUnclamped(w, track_num, current, increment) ==
    LET new_val == current + increment * PAN_STEP
    IN  ReturnNum(SetTrackPan(w, track_num, new_val), new_val)

NudgeTrackPan(w, track_num, current, increment) ==
    LET new_val == Max(0, Min(One, current + increment * PAN_STEP))
    IN  ReturnNum(SetTrackPan(w, track_num, new_val), new_val)

NudgeMasterVolume(w, current, increment) ==
    LET new_val == Max(0, Min(One, current + increment * VOLUME_STEP))
    IN  ReturnNum(SetMasterVolume(w, new_val), new_val)

NudgeSendVolume(w, track_num, send_idx, current, increment) ==
    LET new_val == Max(0, Min(One, current + increment * SEND_STEP))
    IN  ReturnNum(SetSendVolume(w, track_num, send_idx, new_val), new_val)

NudgeFxParam(w, track_num, idx, param_idx, current, increment) ==
    LET new_val == Max(0, Min(One, current + increment * FX_STEP))
    IN  ReturnNum(SetFxParam(w, track_num, idx, param_idx, new_val), new_val)

SetTempo(w, bpm) == Send(w, Msg("tempo/raw", 0, 0, bpm))

(***************************************************************************)
(* State store mutators (reaper/state.py).  Each ends by publishing one    *)
(* state_changed event; its only subscriber, _on_state_changed, writes     *)
(* LEDs and raises nothing the bus would not catch.                        *)
(***************************************************************************)
PublishStateChanged(w) == IF w.exc THEN w ELSE [w EXCEPT !.published = @ + 1]

\* while len(track.sends) <= send_idx: append a send named by its number
\* the 1-based position Python's list[idx] names, 0 where it raises
\* IndexError: a negative idx counts from the end of the list
ListIndex(list, idx) ==
    LET at == IF idx >= 0 THEN idx + 1 ELSE Len(list) + idx + 1
    IN  IF at \in 1..Len(list) THEN at ELSE 0

ExtendSends(s, n) ==
    IF Len(s) >= n THEN s ELSE s \o [k \in 1..(n - Len(s)) |-> NewSend(Len(s) + k)]

\* while len(fx_list) <= fx_idx: append FXInfo(len(fx_list))
ExtendFx(s, n) ==
    IF Len(s) >= n THEN s ELSE s \o [k \in 1..(n - Len(s)) |-> NewFX(Len(s) + k - 1)]

\* while len(fx.params) <= param_idx: append a parameter named by its number
ExtendParams(s, n) ==
    IF Len(s) >= n THEN s ELSE s \o [k \in 1..(n - Len(s)) |-> NewParam(Len(s) + k)]

\* update_track for a track the store holds (it holds tracks 1..64)
UpdateTrack(w, track_num, field, value) ==
    IF w.exc THEN w
    ELSE PublishStateChanged([w EXCEPT !.tracks[track_num][field] = value,
                                       !.dirty = TRUE])

\* update_transport(playing=False, paused=False) of _on_stop sets two fields
UpdateTransport(w, field, value) ==
    IF w.exc THEN w
    ELSE PublishStateChanged([w EXCEPT !.transport[field] = value, !.dirty = TRUE])

UpdateMaster(w, field, value) ==
    IF w.exc THEN w
    ELSE PublishStateChanged([w EXCEPT !.master[field] = value, !.dirty = TRUE])

\* send_idx is 0-based
UpdateSend(w, track_num, send_idx, field, value) ==
    IF w.exc THEN w
    ELSE LET sends == ExtendSends(w.tracks[track_num].sends, send_idx + 1)
             at == ListIndex(sends, send_idx)
         IN  IF at = 0 THEN Raise(w)
             ELSE PublishStateChanged(
                      [w EXCEPT !.tracks[track_num].sends =
                                    [sends EXCEPT ![at][field] = value],
                                !.dirty = TRUE])

UpdateFx(w, track_num, idx, field, value) ==
    IF w.exc THEN w
    ELSE LET fx_list == ExtendFx(w.fx[track_num], idx + 1)
             at == ListIndex(fx_list, idx)
         IN  IF at = 0 THEN Raise([w EXCEPT !.fx[track_num] = fx_list])
             ELSE PublishStateChanged(
                      [w EXCEPT !.fx[track_num] = [fx_list EXCEPT ![at][field] = value],
                                !.dirty = TRUE])

UpdateFxParam(w, track_num, idx, param_idx, field, value) ==
    IF w.exc THEN w
    ELSE LET fx_list == ExtendFx(w.fx[track_num], idx + 1)
             at == ListIndex(fx_list, idx)
         IN  IF at = 0 THEN Raise([w EXCEPT !.fx[track_num] = fx_list])
             ELSE LET params == ExtendParams(fx_list[at].params, param_idx + 1)
                      p_at == ListIndex(params, param_idx)
                      grown == [fx_list EXCEPT ![at].params = params]
                  IN  IF p_at = 0 THEN Raise([w EXCEPT !.fx[track_num] = grown])
                      ELSE PublishStateChanged(
                               [w EXCEPT !.fx[track_num] =
                                             [grown EXCEPT ![at].params[p_at][field] =
                                                               value],
                                         !.dirty = TRUE])

\* a faulty set_bank that stores the offset as given
SetBankUnclamped(w, offset) ==
    IF w.exc THEN w
    ELSE PublishStateChanged([w EXCEPT !.bank_offset = offset, !.dirty = TRUE])

SetBank(w, offset) ==
    IF w.exc THEN w
    ELSE PublishStateChanged([w EXCEPT !.bank_offset = Max(0, offset),
                                       !.dirty = TRUE])

NextBank(w) == SetBank(w, w.bank_offset + 8)

PrevBank(w) == SetBank(w, w.bank_offset - 8)

\* self.tracks.get(i, TrackInfo(i)); the tracks the model follows are those
\* of TrackNums, every other track is as the constructor made it
TrackAt(w, i) == IF i \in DOMAIN w.tracks THEN w.tracks[i] ELSE TrackInfo(i)

\* get_bank_tracks: the tracks start .. start + 7, as a list
GetBankTracks(w) ==
    LET start == w.bank_offset + 1
    IN  [k \in 1..8 |-> TrackAt(w, start + k - 1)]

(***************************************************************************)
(* Mode lifecycle (modes/*.py enter and exit).                             *)
(***************************************************************************)
\* SessionMode._update_pad_colors, trigger_scene and stop_column read
\* daemon.playtime; Push2ReaperDaemon.__init__ sets no such attribute, so the
\* read raises AttributeError
ReadDaemonPlaytime(w) == Raise(w)

NoteLifecycle(w, m, call) ==
    [w EXCEPT !.trace = Append(@, ModeCall(m, call, None)),
              !.pairing_ok = @ /\ (w.open[m] = (call = "exit")),
              !.open[m] = (call = "enter")]

ModeEnter(w, m) ==
    IF w.exc THEN w
    ELSE LET w1 == NoteLifecycle(w, m, "enter")
         IN  CASE m = "browser" -> TriggerAction(w1, ACTION_FX_BROWSER)
               [] m = "session" -> ReadDaemonPlaytime(w1)
               [] OTHER -> w1

ModeExit(w, m) == IF w.exc THEN w ELSE NoteLifecycle(w, m, "exit")

(***************************************************************************)
(* Mode switching (main.py).                                               *)
(***************************************************************************)
\* a faulty switch_mode, which lacks the test for the active mode
SwitchModeUnguarded(w, new_mode) ==
    IF w.exc THEN w
    ELSE LET w1 == ModeExit(w, w.mode)
             w2 == IF w1.exc THEN w1 ELSE [w1 EXCEPT !.mode = new_mode]
         IN  ModeEnter(w2, new_mode)

SwitchMode(w, new_mode) ==
    IF w.exc THEN w
    ELSE IF new_mode = w.mode THEN w
    ELSE LET w1 == ModeExit(w, w.mode)
             w2 == IF w1.exc THEN w1 ELSE [w1 EXCEPT !.mode = new_mode]
         IN  ModeEnter(w2, new_mode)

ToggleScaleMode(w) ==
    IF w.exc THEN w
    ELSE IF w.mode = "scale"
    THEN LET w1 == ModeExit([w EXCEPT !.toggles = @ + 1], "scale")
             w2 == IF w1.exc THEN w1
                   ELSE [w1 EXCEPT !.mode = IF w1.previous_mode # None
                                            THEN w1.previous_mode ELSE "mixer"]
             w3 == ModeEnter(w2, w2.mode)
         IN  IF w3.exc THEN w3 ELSE [w3 EXCEPT !.previous_mode = None]
    ELSE LET w0 == [w EXCEPT !.toggles = @ + 1, !.previous_mode = w.mode]
             w1 == ModeExit(w0, w0.mode)
             w2 == IF w1.exc THEN w1 ELSE [w1 EXCEPT !.mode = "scale"]
         IN  ModeEnter(w2, "scale")

(***************************************************************************)
(* The modes' on_button (modes/*.py).  ret is the value returned: handled. *)
(***************************************************************************)
MixerOnButton(w, button) ==
    IF button = "mute"
    THEN Return([w EXCEPT !.lower_row_mode =
                     IF w.lower_row_mode # "mute" THEN "mute" ELSE "select"], TRUE)
    ELSE IF button = "solo"
    THEN Return([w EXCEPT !.lower_row_mode =
                     IF w.lower_row_mode # "solo" THEN "solo" ELSE "select"], TRUE)
    ELSE IF InSeq(LOWER_ROW, button)
    THEN LET idx == IndexOf(LOWER_ROW, button)
             track_num == w.bank_offset + 1 + idx
         IN  Return(CASE w.lower_row_mode = "mute" ->
                            Send(w, Msg("mute/toggle", track_num, 0, 0))
                      [] w.lower_row_mode = "solo" ->
                            Send(w, Msg("solo/toggle", track_num, 0, 0))
                      [] OTHER -> SelectAndArmTrack(w, track_num), TRUE)
    ELSE IF InSeq(UPPER_ROW, button)
    THEN Return([w EXCEPT !.encoder_mode =
                     CASE w.encoder_mode = "volume" -> "pan"
                       [] w.encoder_mode = "pan" -> "send"
                       [] OTHER -> "volume"], TRUE)
    ELSE Return(w, FALSE)

\* the row buttons set the root, scale, layout and in-key flag of ScaleState,
\* which the dispatcher, the store and the command client do not read
ScaleOnButton(w, button) ==
    IF InSeq(UPPER_ROW, button) \/ InSeq(LOWER_ROW, button)
    THEN Return(w, TRUE)
    ELSE IF button = "page_left"
    THEN Return([w EXCEPT !.page = Max(0, w.page - 1)], TRUE)
    ELSE IF button = "page_right"
    THEN Return([w EXCEPT !.page = Min(TOTAL_PAGES - 1, w.page + 1)], TRUE)
    ELSE IF button \in {"octave_up", "octave_down"}
    THEN Return(w, TRUE)
    ELSE Return(w, FALSE)

DrumOnButton(w, button) ==
    IF InSeq(LOWER_ROW, button)
    THEN Return(SelectAndArmTrack(w, w.bank_offset + 1 + IndexOf(LOWER_ROW, button)),
                TRUE)
    ELSE IF InSeq(UPPER_ROW, button)
    THEN Return(w, TRUE)
    ELSE Return(w, FALSE)

DeviceOnButton(w, button) ==
    IF InSeq(UPPER_ROW, button)
    THEN LET idx == IndexOf(UPPER_ROW, button)
         IN  Return(CASE idx = 0 -> [w EXCEPT !.param_bank = Max(0, @ - 1)]
                      [] idx = 1 -> [w EXCEPT !.param_bank = @ + 1]
                      [] idx = 6 -> [w EXCEPT !.fx_idx = Max(0, @ - 1),
                                              !.param_bank = 0]
                      [] idx = 7 -> [w EXCEPT !.fx_idx = @ + 1, !.param_bank = 0]
                      [] OTHER -> w, TRUE)
    ELSE IF InSeq(LOWER_ROW, button)
    THEN LET w1 == SelectAndArmTrack(w, w.bank_offset + 1 + IndexOf(LOWER_ROW, button))
         IN  Return([w1 EXCEPT !.fx_idx = 0, !.param_bank = 0], TRUE)
    ELSE Return(w, FALSE)

SessionOnButton(w, button) ==
    IF InSeq(UPPER_ROW, button) \/ InSeq(LOWER_ROW, button)
    THEN Return(ReadDaemonPlaytime(w), TRUE)
    ELSE Return(w, FALSE)

BrowserOnButton(w, button) ==
    IF InSeq(UPPER_ROW, button)
    THEN LET idx == IndexOf(UPPER_ROW, button)
         IN  Return(CASE idx = 0 -> TriggerAction(w, ACTION_FX_BROWSER)
                      [] idx = 1 -> TriggerAction(w, ACTION_FX_CHAIN)
                      [] idx = 2 -> TriggerAction(w, ACTION_INSERT_VIRTUAL_INSTRUMENT)
                      [] OTHER -> w, TRUE)
    ELSE IF InSeq(LOWER_ROW, button)
    THEN Return(SelectAndArmTrack(w, w.bank_offset + 1 + IndexOf(LOWER_ROW, button)),
                TRUE)
    ELSE Return(w, FALSE)

\* self._mode.on_button(self, button, name)
ModeOnButton(w, button) ==
    IF w.exc THEN w
    ELSE LET w1 == [w EXCEPT !.trace = Append(@, ModeCall(w.mode, "on_button", button))]
         IN  CASE w.mode = "mixer" -> MixerOnButton(w1, button)
               [] w.mode = "scale" -> ScaleOnButton(w1, button)
               [] w.mode = "drum" -> DrumOnButton(w1, button)
               [] w.mode = "device" -> DeviceOnButton(w1, button)
               [] w.mode = "session" -> SessionOnButton(w1, button)
               [] OTHER -> BrowserOnButton(w1, button)

(***************************************************************************)
(* Push2ReaperDaemon._on_button and _cycle_automation_mode (main.py).      *)
(***************************************************************************)
CycleAutomationMode(w) ==
    IF w.exc THEN w
    ELSE IF w.selected_track \notin DOMAIN w.tracks THEN w
    ELSE LET track_num == w.selected_track
             new_mode == (w.tracks[track_num].automode + 1) % 5
         IN  UpdateTrack(Send(w, Msg("automode", track_num, 0, new_mode)),
                         track_num, "automode", new_mode)

\* the mode a mode-select button switches to: its mode, or the mixer when
\* that mode is the active one
ModeButtonTarget(w, button) ==
    LET m == CASE button = "note" -> "drum"
               [] button = "device" -> "device"
               [] button = "session" -> "session"
               [] button = "browse" -> "browser"
               [] OTHER -> "mixer"
    IN  IF w.mode = m THEN "mixer" ELSE m

\* lines 269-277: delegate, and leave the scale overlay on an unhandled button
DelegateToMode(w, button) ==
    LET w1 == ModeOnButton(w, button)
    IN  IF w1.exc \/ w1.ret THEN w1
        ELSE IF w1.mode = "scale"
        THEN ModeOnButton(ToggleScaleMode(w1), button)
        ELSE w1

\* a faulty test of lines 190 and 199, which holds in every mode
PageDelegatesAlways(w, button) == TRUE

\* lines 190 and 199: the scale overlay handles the page buttons itself
PageDelegates(w, button) == w.mode = "scale"

OnButton(w, button) ==
    CASE button = "shift" -> [w EXCEPT !.shift_held = TRUE]
      [] button = "undo" ->
            Send(w, Msg("action", 0, 0, IF w.shift_held THEN ACTION_REDO
                                        ELSE ACTION_UNDO))
      [] button = "scale" -> ToggleScaleMode(w)
      \* octave_up/octave_down move scale_state.base_note, which no mode
      \* switch, store value or command reads
      [] button \in {"octave_up", "octave_down"} -> w
      [] button = "play" -> Send(w, Msg("play", 0, 0, 0))
      [] button = "stop" -> Send(w, Msg("stop", 0, 0, 0))
      [] button = "record" -> Send(w, Msg("record", 0, 0, 0))
      [] button = "metronome" -> Send(w, Msg("click", 0, 0, 0))
      [] button = "repeat" -> Send(w, Msg("repeat", 0, 0, 0))
      [] button = "page_left" ->
            IF PageDelegates(w, button) THEN ModeOnButton(w, button)
            ELSE PrevBank(Send(w, Msg("device/track/bank/-", 0, 0, 0)))
      [] button = "page_right" ->
            IF PageDelegates(w, button) THEN ModeOnButton(w, button)
            ELSE NextBank(Send(w, Msg("device/track/bank/+", 0, 0, 0)))
      [] button = "left" -> Send(w, Msg("device/track/-", 0, 0, 0))
      [] button = "right" -> Send(w, Msg("device/track/+", 0, 0, 0))
      [] button = "master" -> w
      [] button = "add_device" -> TriggerAction(w, ACTION_FX_BROWSER)
      [] button = "add_track" -> TriggerAction(w, ACTION_ADD_TRACK)
      [] button = "automate" -> CycleAutomationMode(w)
      [] button = "mix" -> SwitchMode(w, "mixer")
      [] button \in {"note", "device", "session", "browse"} ->
            SwitchMode(w, ModeButtonTarget(w, button))
      [] OTHER -> DelegateToMode(w, button)

(***************************************************************************)
(* The modes' on_encoder (modes/*.py) and _on_encoder (main.py).           *)
(***************************************************************************)
TRACK_ENCODERS == <<"track1_encoder", "track2_encoder", "track3_encoder",
                    "track4_encoder", "track5_encoder", "track6_encoder",
                    "track7_encoder", "track8_encoder">>

MASTER_ENCODER == "master_encoder"

TEMPO_ENCODER == "tempo_encoder"

\* the tempo encoder sends a tempo between 20 and 300 bpm and stores nothing
TempoEncoder(w, increment) ==
    SetTempo(w, Max(20 * One, Min(300 * One, w.transport.tempo + increment * One)))

MasterEncoder(w, increment) ==
    LET w1 == NudgeMasterVolume(w, w.master.volume, increment)
    IN  UpdateMaster(w1, "volume", w1.num)

\* the track encoder of the drum and session modes, and of the mixer's
\* volume mode
VolumeEncoder(w, track_idx, increment) ==
    LET track_num == w.bank_offset + 1 + track_idx
    IN  IF track_num \notin DOMAIN w.tracks THEN w
        ELSE LET w1 == NudgeTrackVolume(w, track_num, w.tracks[track_num].volume,
                                        increment)
             IN  UpdateTrack(w1, track_num, "volume", w1.num)

MixerOnEncoder(w, encoder, increment) ==
    IF InSeq(TRACK_ENCODERS, encoder)
    THEN LET track_idx == IndexOf(TRACK_ENCODERS, encoder)
         IN  IF w.encoder_mode = "send"
             THEN LET track_num == w.selected_track
                  IN  IF track_num \notin DOMAIN w.tracks THEN w
                      ELSE LET send_idx == track_idx
                               grown == [w EXCEPT !.tracks[track_num].sends =
                                             ExtendSends(@, send_idx + 1)]
                               w0 == IF Len(w.tracks[track_num].sends) <= send_idx
                                     THEN WrittenUnlocked(grown, "sends")
                                     ELSE grown
                               current == w0.tracks[track_num].sends[send_idx + 1].volume
                               w1 == NudgeSendVolume(w0, track_num, send_idx, current,
                                                     increment)
                           IN  UpdateSend(w1, track_num, send_idx, "volume", w1.num)
             ELSE LET track_num == w.bank_offset + 1 + track_idx
                  IN  IF track_num \notin DOMAIN w.tracks THEN w
                      ELSE IF w.encoder_mode = "volume"
                      THEN VolumeEncoder(w, track_idx, increment)
                      ELSE IF w.encoder_mode = "pan"
                      THEN LET w1 == NudgeTrackPan(w, track_num,
                                                   w.tracks[track_num].pan, increment)
                           IN  UpdateTrack(w1, track_num, "pan", w1.num)
                      ELSE w
    ELSE IF encoder = MASTER_ENCODER THEN MasterEncoder(w, increment)
    ELSE IF encoder = TEMPO_ENCODER THEN TempoEncoder(w, increment)
    ELSE w

DeviceOnEncoder(w, encoder, increment) ==
    IF encoder = MASTER_ENCODER THEN MasterEncoder(w, increment)
    ELSE IF encoder = TEMPO_ENCODER THEN TempoEncoder(w, increment)
    ELSE IF InSeq(TRACK_ENCODERS, encoder)
    THEN LET encoder_idx == IndexOf(TRACK_ENCODERS, encoder)
             track_num == w.selected_track
             param_idx == w.param_bank * 8 + encoder_idx
             fx_list == w.fx[track_num]
             current == IF w.fx_idx < Len(fx_list)
                           /\ param_idx < Len(fx_list[w.fx_idx + 1].params)
                        THEN fx_list[w.fx_idx + 1].params[param_idx + 1].value
                        ELSE 0
             w1 == NudgeFxParam(w, track_num, w.fx_idx, param_idx, current, increment)
         IN  UpdateFxParam(w1, track_num, w.fx_idx, param_idx, "value", w1.num)
    ELSE w

DrumOnEncoder(w, encoder, increment) ==
    IF encoder = MASTER_ENCODER THEN MasterEncoder(w, increment)
    ELSE IF encoder = TEMPO_ENCODER THEN TempoEncoder(w, increment)
    ELSE IF InSeq(TRACK_ENCODERS, encoder)
    THEN VolumeEncoder(w, IndexOf(TRACK_ENCODERS, encoder), increment)
    ELSE w

SessionOnEncoder(w, encoder, increment) ==
    IF InSeq(TRACK_ENCODERS, encoder)
    THEN VolumeEncoder(w, IndexOf(TRACK_ENCODERS, encoder), increment)
    ELSE IF encoder = MASTER_ENCODER THEN MasterEncoder(w, increment)
    ELSE IF encoder = TEMPO_ENCODER THEN TempoEncoder(w, increment)
    ELSE w

BrowserOnEncoder(w, encoder, increment) ==
    IF encoder = MASTER_ENCODER THEN MasterEncoder(w, increment)
    ELSE IF encoder = TEMPO_ENCODER THEN TempoEncoder(w, increment)
    ELSE IF InSeq(TRACK_ENCODERS, encoder) /\ IndexOf(TRACK_ENCODERS, encoder) = 0
            /\ increment > 0
    THEN TriggerAction(w, ACTION_BROWSER_NEXT)
    ELSE w

\* _on_encoder: self._mode.on_encoder; the scale overlay inherits Mode's no-op
OnEncoder(w, encoder, increment) ==
    CASE w.mode = "mixer" -> MixerOnEncoder(w, encoder, increment)
      [] w.mode = "device" -> DeviceOnEncoder(w, encoder, increment)
      [] w.mode = "drum" -> DrumOnEncoder(w, encoder, increment)
      [] w.mode = "session" -> SessionOnEncoder(w, encoder, increment)
      [] w.mode = "browser" -> BrowserOnEncoder(w, encoder, increment)
      [] OTHER -> w

(***************************************************************************)
(* Feedback router (reaper/osc_server.py).  A payload is the first OSC     *)
(* argument of a message: a float, an int, or a string that is no number.  *)
(***************************************************************************)
Payload(kind, val) == [kind |-> kind, val |-> val]

Coerced(ok, v) == [ok |-> ok, v |-> v]

\* float(x): ValueError for a string that is no number
ToFloat(p) == IF p.kind = "str" THEN Coerced(FALSE, 0) ELSE Coerced(TRUE, p.val)

\* int(x): truncation toward zero of a float, ValueError for such a string
ToInt(p) ==
    IF p.kind = "str" THEN Coerced(FALSE, 0)
    ELSE Coerced(TRUE, IF p.val >= 0 THEN p.val \div One ELSE -((-p.val) \div One))

\* str(x)
Str(p) == Text(p.kind, p.val)

InUnit(v) == 0 <= v /\ v <= One

\* a faulty _extract_track_num, which reads every address as track 1
ExtractTrackNumFirst(fb) == 1

\* _TRACK_RE and int(m.group(1)): the track number the address names
ExtractTrackNum(fb) == fb.track

\* 0xRRGGBB to (r, g, b)
UnpackColor(color_int) ==
    <<(color_int \div 65536) % 256, (color_int \div 256) % 256, color_int % 256>>

OnTransport(w, fb) ==
    LET c == ToInt(fb.payload)
    IN  IF ~c.ok THEN Raise(w) ELSE UpdateTransport(w, fb.field, c.v # 0)

OnStop(w, fb) ==
    LET c == ToInt(fb.payload)
    IN  IF ~c.ok THEN Raise(w)
        ELSE IF c.v # 0
        THEN PublishStateChanged([w EXCEPT !.transport.playing = FALSE,
                                           !.transport.paused = FALSE,
                                           !.dirty = TRUE])
        ELSE w

OnTempoRaw(w, fb) ==
    LET c == ToFloat(fb.payload)
    IN  IF ~c.ok THEN Raise(w) ELSE UpdateTransport(w, "tempo", c.v)

\* _on_tempo_str, _on_beat_str, _on_time_str
OnTransportStr(w, fb) == UpdateTransport(w, fb.field, Str(fb.payload))

OnMasterFloat(w, fb) ==
    LET c == ToFloat(fb.payload)
    IN  IF ~c.ok THEN w
        ELSE IF ~InUnit(c.v) THEN w
        ELSE UpdateMaster(w, fb.field, c.v)

OnMasterStr(w, fb) == UpdateMaster(w, fb.field, Str(fb.payload))

OnTrackFloat(w, fb) ==
    LET track_num == ExtractTrackNum(fb)
        c == ToFloat(fb.payload)
    IN  IF ~c.ok THEN w
        ELSE IF fb.field \in {"volume", "pan"} /\ ~InUnit(c.v) THEN w
        ELSE IF fb.field \in {"vu", "vu_l", "vu_r"} /\ ~InUnit(c.v) THEN w
        ELSE UpdateTrack(w, track_num, fb.field, c.v)

OnTrackBool(w, fb) ==
    LET track_num == ExtractTrackNum(fb)
        c == ToInt(fb.payload)
    IN  IF ~c.ok THEN w ELSE UpdateTrack(w, track_num, fb.field, c.v # 0)

OnTrackSelect(w, fb) ==
    LET track_num == ExtractTrackNum(fb)
        c == ToInt(fb.payload)
    IN  IF ~c.ok THEN Raise(w)
        ELSE LET w1 == UpdateTrack(w, track_num, "selected", c.v # 0)
             IN  IF c.v # 0
                 THEN WrittenUnlocked([w1 EXCEPT !.selected_track = track_num],
                                      "selected_track")
                 ELSE w1

OnTrackStr(w, fb) == UpdateTrack(w, ExtractTrackNum(fb), fb.field, Str(fb.payload))

OnTrackAutomode(w, fb) ==
    LET c == ToInt(fb.payload)
    IN  IF ~c.ok THEN w ELSE UpdateTrack(w, ExtractTrackNum(fb), "automode", c.v)

OnTrackColor(w, fb) ==
    LET c == ToInt(fb.payload)
    IN  IF ~c.ok THEN w
        ELSE UpdateTrack(w, ExtractTrackNum(fb), "color", UnpackColor(c.v))

\* the address counts sends, FX and parameters from 1, the store from 0
OnSendFloat(w, fb) ==
    LET c == ToFloat(fb.payload)
    IN  IF ~c.ok THEN w
        ELSE IF ~InUnit(c.v) THEN w
        ELSE UpdateSend(w, fb.track, fb.sub - 1, fb.field, c.v)

OnSendStr(w, fb) == UpdateSend(w, fb.track, fb.sub - 1, fb.field, Str(fb.payload))

OnFxName(w, fb) == UpdateFx(w, fb.track, fb.sub - 1, "name", Str(fb.payload))

OnFxParamValue(w, fb) ==
    LET c == ToFloat(fb.payload)
    IN  IF ~c.ok THEN w
        ELSE UpdateFxParam(w, fb.track, fb.sub - 1, fb.sub2 - 1, "value", c.v)

OnFxParamName(w, fb) ==
    UpdateFxParam(w, fb.track, fb.sub - 1, fb.sub2 - 1, "name", Str(fb.payload))

\* the dispatcher's table of _setup_handlers: the handler mapped to the address
RouteFeedback(w, fb) ==
    CASE fb.handler = "_on_transport" -> OnTransport(w, fb)
      [] fb.handler = "_on_stop" -> OnStop(w, fb)
      [] fb.handler = "_on_tempo_raw" -> OnTempoRaw(w, fb)
      [] fb.handler \in {"_on_tempo_str", "_on_beat_str", "_on_time_str"} ->
            OnTransportStr(w, fb)
      [] fb.handler = "_on_master_float" -> OnMasterFloat(w, fb)
      [] fb.handler = "_on_master_str" -> OnMasterStr(w, fb)
      [] fb.handler = "_on_track_float" -> OnTrackFloat(w, fb)
      [] fb.handler = "_on_track_bool" -> OnTrackBool(w, fb)
      [] fb.handler = "_on_track_select" -> OnTrackSelect(w, fb)
      [] fb.handler = "_on_track_str" -> OnTrackStr(w, fb)
      [] fb.handler = "_on_track_automode" -> OnTrackAutomode(w, fb)
      [] fb.handler = "_on_track_color" -> OnTrackColor(w, fb)
      [] fb.handler = "_on_send_float" -> OnSendFloat(w, fb)
      [] fb.handler = "_on_send_str" -> OnSendStr(w, fb)
      [] fb.handler = "_on_fx_name" -> OnFxName(w, fb)
      [] fb.handler = "_on_fx_param_value" -> OnFxParamValue(w, fb)
      [] OTHER -> OnFxParamName(w, fb)

\* a feedback message: the handler and field its address is mapped to, the
\* numbers in the address, and the payload
Feedback(handler, field, track, sub, sub2, payload) ==
    [handler |-> handler, field |-> field, track |-> track, sub |-> sub,
     sub2 |-> sub2, payload |-> payload]

Route(handler, field) == [handler |-> handler, field |-> field]

\* addresses without a track number
GlobalRoutes ==
    {Route("_on_transport", f) : f \in {"playing", "recording", "paused", "repeat"}}
        \cup {Route("_on_stop", None), Route("_on_tempo_raw", "tempo"),
              Route("_on_tempo_str", "tempo_str"), Route("_on_beat_str", "beat_str"),
              Route("_on_time_str", "time_str"),
              Route("_on_master_str", "volume_str")}
        \cup {Route("_on_master_float", f) : f \in {"volume", "pan", "vu"}}

\* /track/n/<field>
TrackRoutes ==
    {Route("_on_track_float", f) : f \in {"volume", "pan", "vu", "vu_l", "vu_r"}}
        \cup {Route("_on_track_bool", f) : f \in {"mute", "solo", "rec_arm"}}
        \cup {Route("_on_track_str", f) : f \in {"name", "volume_str", "pan_str"}}
        \cup {Route("_on_track_select", "selected"),
              Route("_on_track_color", "color"),
              Route("_on_track_automode", "automode")}

\* /track/n/send/i/<field>
SendRoutes ==
    {Route("_on_send_float", f) : f \in {"volume", "pan"}}
        \cup {Route("_on_send_str", f) : f \in {"name", "volume_str"}}

\* /track/n/fx/i/name and /track/n/fx/i/fxparam/j/<field>
FxRoutes ==
    {Route("_on_fx_name", "name"), Route("_on_fx_param_value", "value"),
     Route("_on_fx_param_name", "name")}

\* the payloads of the model: 0.8, 1.4, -0.1 and a string that is no number
Payloads == {Payload("float", 800), Payload("float", 1400), Payload("float", -100),
             Payload("str", 0)}

\* the feedback messages of the model
Feedbacks ==
    {Feedback(r.handler, r.field, 0, 0, 0, p) : r \in GlobalRoutes, p \in Payloads}
        \cup {Feedback(r.handler, r.field, n, 0, 0, p) :
                  r \in TrackRoutes, n \in TrackNums, p \in Payloads}
        \cup {Feedback(r.handler, r.field, 1, 1, 0, p) : r \in SendRoutes, p \in Payloads}
        \cup {Feedback(r.handler, r.field, 1, 1, 1, p) : r \in FxRoutes, p \in Payloads}

(***************************************************************************)
(* Event bus (core/event_bus.py).                                          *)
(***************************************************************************)
EventTypes == {"button_pressed", "state_changed"}

\* the callbacks of the model; h2 raises an Exception whenever it is called
Handlers == {"h1", "h2", "h3"}

RaisingHandlers == {"h2"}

\* every callback of the model: those of Handlers, three that call the bus
\* while they run, and two that call the store
Callbacks == Handlers \cup {"resub", "unsub", "repub", "reader", "writer"}

\* self._subscribers[event_type].append(callback)
Subscribed(subs, event_type, callback) ==
    [subs EXCEPT ![event_type] = Append(@, callback)]

IsNot(callback) == [cb \in Callbacks |-> cb # callback]

\* [cb for cb in self._subscribers[event_type] if cb is not callback]
Unsubscribed(subs, event_type, callback) ==
    [subs EXCEPT ![event_type] =
         SelectSeq(@, LAMBDA cb : IsNot(callback)[cb])]

\* a faulty publish, whose loop has no except clause
ExceptClauseMissing(cb) == FALSE

\* except Exception: every exception a handler of the model raises is one
ExceptClauseCatches(cb) == TRUE

\* the for loop of publish over the snapshot, from its i-th callback on
RECURSIVE Dispatch(_, _, _)
Dispatch(callbacks, i, invoked) ==
    IF i > Len(callbacks)
    THEN [invoked |-> invoked, propagated |-> FALSE]
    ELSE LET cb == callbacks[i]
         IN  IF cb \in RaisingHandlers /\ ~ExceptClauseCatches(cb)
             THEN [invoked |-> Append(invoked, cb), propagated |-> TRUE]
             ELSE Dispatch(callbacks, i + 1, Append(invoked, cb))

\* publish: the snapshot taken under the lock, then the loop
Published(subs, event_type) == Dispatch(subs[event_type], 1, <<>>)

NoPublish == [event_type |-> None, snapshot |-> <<>>, invoked |-> <<>>,
              propagated |-> FALSE]

(***************************************************************************)
(* Events.  The hardware thread publishes button_pressed on the bus, whose *)
(* publish calls _on_button and catches what it raises.                    *)
(***************************************************************************)
NoFeedback == Feedback(None, None, 0, 0, 0, Payload(None, 0))

\* what the store holds
StoreOf(w) ==
    <<w.tracks, w.master, w.transport, w.fx, w.bank_offset, w.selected_track, w.dirty>>

\* the last event: what arrived, the active mode and the saved previous-mode
\* pointer when it arrived, whether its handler raised, and whether it left
\* the store other than it found it
Event(kind, button, mode_before, saved, raised, fb, increment, changed) ==
    [kind |-> kind, button |-> button, mode_before |-> mode_before,
     saved |-> saved, raised |-> raised, fb |-> fb, increment |-> increment,
     changed |-> changed]

NoPair == [stage |-> 0, m |-> None, calls |-> <<>>]

IsLifecycleCall(c) == c.call # "on_button"

\* two calls of toggle_scale_mode with no other lifecycle call between them
NextTogglePair(w, mode_before) ==
    LET life == SelectSeq(w.trace, IsLifecycleCall)
    IN  IF w.toggles = 1 /\ mode_before # "scale"
        THEN [stage |-> 1, m |-> mode_before, calls |-> life]
        ELSE IF w.toggles = 1 /\ mode_before = "scale" /\ toggle_pair.stage = 1
        THEN [stage |-> 2, m |-> toggle_pair.m, calls |-> toggle_pair.calls \o life]
        ELSE IF life = <<>> /\ toggle_pair.stage = 1
        THEN toggle_pair
        ELSE NoPair

Commit(w) ==
    /\ running' = w.running
    /\ mode' = w.mode
    /\ previous_mode' = w.previous_mode
    /\ shift_held' = w.shift_held
    /\ lower_row_mode' = w.lower_row_mode
    /\ encoder_mode' = w.encoder_mode
    /\ fx_idx' = w.fx_idx
    /\ param_bank' = w.param_bank
    /\ page' = w.page
    /\ bank_offset' = w.bank_offset
    /\ selected_track' = w.selected_track
    /\ tracks' = w.tracks
    /\ master' = w.master
    /\ transport' = w.transport
    /\ fx' = w.fx
    /\ dirty' = w.dirty
    /\ open' = w.open
    /\ pairing_ok' = w.pairing_ok
    /\ trace' = w.trace
    /\ sent' = w.sent
    /\ published' = w.published
    /\ unlocked' = w.unlocked

\* the counters the code never bounds stay within the model's bounds
ButtonWithinBounds(button) ==
    /\ (button = "page_right" /\ mode # "scale") => bank_offset < 8 * MaxBanks
    /\ (button = "upper_row_2" /\ mode = "device") => param_bank < MaxDeviceIdx
    /\ (button = "upper_row_8" /\ mode = "device") => fx_idx < MaxDeviceIdx

(***************************************************************************)
(* Feedback server (reaper/osc_server.py): start and stop.                 *)
(***************************************************************************)
\* ReaperOSCServer.__init__: no server, no thread; sockets are the bound
\* sockets that were never closed, threads the serve_forever threads alive; address
\* and delivered are the last message dispatched and the handlers it was given to
RouterInit ==
    [server |-> None, sockets |-> 0, threads |-> 0,
     last |-> [op |-> None, raised |-> FALSE], address |-> <<>>, delivered |-> <<>>]

\* start(): a ThreadingOSCUDPServer is built, which binds the port, and a
\* thread is started on its serve_forever; nothing tests whether a server
\* exists.  bind_ok is whether the bind succeeds: it does on a free port,
\* and on a port a socket of this process still holds the outcome is the
\* operating system's
RouterStart(r, bind_ok) ==
    IF bind_ok \/ r.sockets = 0
    THEN [r EXCEPT !.server = "serving", !.sockets = @ + 1, !.threads = @ + 1,
                   !.last = [op |-> "start", raised |-> FALSE]]
    ELSE [r EXCEPT !.last = [op |-> "start", raised |-> TRUE]]

\* stop(): self._server.shutdown() ends the serve_forever loop of the server
\* _server names, and returns when it has ended; the socket stays open
RouterStop(r) ==
    IF r.server = None
    THEN [r EXCEPT !.last = [op |-> "stop", raised |-> FALSE]]
    ELSE [r EXCEPT !.server = "shut",
                   !.threads = IF r.server = "serving" THEN @ - 1 ELSE @,
                   !.last = [op |-> "stop", raised |-> FALSE]]

\* run(), up to the display loop: the feedback server is started and the
\* initial mode is entered
Run ==
    /\ ~running
    /\ loop.pc = "idle"
    /\ Commit(ModeEnter([Cur EXCEPT !.running = TRUE], mode))
    /\ ev' = Event("run", None, mode, previous_mode, FALSE, NoFeedback, 0, FALSE)
    /\ toggle_pair' = NoPair
    /\ loop' = [loop EXCEPT !.pc = "test"]
    /\ router' = RouterStart(router, TRUE)
    /\ UNCHANGED <<bus, hw, pt, streams, pads, busVars, nudge, ops>>

\* button_pressed: _on_button
Press(button) ==
    /\ running
    /\ ButtonWithinBounds(button)
    /\ LET w == OnButton(Cur, button)
       IN  /\ Commit([w EXCEPT !.exc = FALSE])
           /\ ev' = Event("button", button, mode, previous_mode, w.exc, NoFeedback, 0,
                          StoreOf(w) # StoreOf(Cur))
           /\ toggle_pair' = NextTogglePair(w, mode)
    /\ UNCHANGED <<laterVars, busVars, nudge>>

ButtonPressed(button) == Press(button) /\ UNCHANGED ops

\* a press counted among the events of a bounded run
ButtonPressedCounted(button) ==
    /\ ops < MaxStoreOps
    /\ Press(button)
    /\ ops' = ops + 1

\* encoder_rotated: _on_encoder
EncoderRotated(encoder, increment) ==
    /\ running
    /\ ops < MaxStoreOps
    /\ LET w == OnEncoder(Cur, encoder, increment)
       IN  /\ Commit([w EXCEPT !.exc = FALSE])
           /\ ev' = Event("encoder", encoder, mode, previous_mode, w.exc, NoFeedback,
                          increment, StoreOf(w) # StoreOf(Cur))
    /\ ops' = ops + 1
    /\ toggle_pair' = NoPair
    /\ UNCHANGED <<laterVars, busVars, nudge>>

\* a feedback message arrives on the server thread, started by run(), and
\* the dispatcher calls the handler mapped to its address
FeedbackReceived(fb) ==
    /\ running
    /\ ops < MaxStoreOps
    /\ LET w == RouteFeedback(Cur, fb)
       IN  /\ Commit([w EXCEPT !.exc = FALSE])
           /\ ev' = Event("feedback", None, mode, previous_mode, w.exc, fb, 0,
                          StoreOf(w) # StoreOf(Cur))
    /\ ops' = ops + 1
    /\ toggle_pair' = NoPair
    /\ UNCHANGED <<laterVars, busVars, nudge>>

\* _on_button_released
ButtonReleased(button) ==
    /\ running
    /\ Commit([Cur EXCEPT !.shift_held = IF button = "shift" THEN FALSE ELSE @])
    /\ ev' = Event("release", button, mode, previous_mode, FALSE, NoFeedback, 0, FALSE)
    /\ toggle_pair' = IF toggle_pair.stage = 1 THEN toggle_pair ELSE NoPair
    /\ UNCHANGED <<laterVars, busVars, nudge, ops>>

\* state.next_bank(), called on the store directly
NextBankCalled ==
    /\ bank_offset < 8 * MaxBanks
    /\ Commit(NextBank(Cur))
    /\ ev' = Event("next_bank", None, mode, previous_mode, FALSE, NoFeedback, 0, TRUE)
    /\ toggle_pair' = NoPair
    /\ UNCHANGED <<laterVars, busVars, nudge, ops>>

\* state.prev_bank(), called on the store directly
PrevBankCalled ==
    /\ Commit(PrevBank(Cur))
    /\ ev' = Event("prev_bank", None, mode, previous_mode, FALSE, NoFeedback, 0,
                   bank_offset # 0)
    /\ toggle_pair' = NoPair
    /\ UNCHANGED <<laterVars, busVars, nudge, ops>>

RECURSIVE SumLen(_, _)
SumLen(subs, types) ==
    IF types = {} THEN 0
    ELSE LET t == CHOOSE x \in types : TRUE
         IN  Len(subs[t]) + SumLen(subs, types \ {t})

\* the registrations the bus holds, over all event types
Registrations(subs) == SumLen(subs, EventTypes)

\* EventBus.subscribe; the list keeps every registration, repeated or not
Subscribe(event_type, callback) ==
    /\ Registrations(subscribers) < MaxSubs
    /\ subscribers' = Subscribed(subscribers, event_type, callback)
    /\ UNCHANGED <<laterVars, daemonVars, ops, done, nudge>>

\* EventBus.unsubscribe
Unsubscribe(event_type, callback) ==
    /\ subscribers' = Unsubscribed(subscribers, event_type, callback)
    /\ UNCHANGED <<laterVars, daemonVars, ops, done, nudge>>

\* EventBus.publish, as its caller sees it
Publish(event_type) ==
    /\ LET r == Published(subscribers, event_type)
       IN  done' = [event_type |-> event_type, snapshot |-> subscribers[event_type],
                    invoked |-> r.invoked, propagated |-> r.propagated]
    /\ UNCHANGED <<laterVars, daemonVars, ops, subscribers, nudge>>

(***************************************************************************)
(* The event bus step by step (core/event_bus.py): each thread is a stack  *)
(* of calls in progress, and the lock is taken and released in steps.      *)
(***************************************************************************)
\* the main thread and the feedback server's thread
BusThreads == {"main", "osc"}

Call(op, event_type, cb, data) ==
    [op |-> op, event_type |-> event_type, cb |-> cb, data |-> data]

\* the calls a callback makes when it is invoked with data: resub
\* subscribes h1, unsub unsubscribes h1, repub answers the event e1 by
\* publishing the event e2 of the same type, reader reads the visible bank
\* as the modes' on_state_changed do, writer answers a track change by
\* moving the bank
Body(cb, event_type, data) ==
    CASE cb = "resub" -> <<Call("subscribe", event_type, "h1", None)>>
      [] cb = "unsub" -> <<Call("unsubscribe", event_type, "h1", None)>>
      [] cb = "repub" -> IF data = "e1"
                         THEN <<Call("publish", event_type, None, "e2")>>
                         ELSE <<>>
      [] cb = "reader" -> <<Call("get_bank_tracks", None, None, None)>>
      [] cb = "writer" -> IF data = "track"
                          THEN <<Call("mutator", None, "set_bank", None)>>
                          ELSE <<>>
      [] OTHER -> <<>>

\* a call that has been made and is about to enter `with self._lock`
Frame(call, n) ==
    [op |-> call.op, pc |-> "acquire", event_type |-> call.event_type,
     cb |-> call.cb, data |-> call.data, callbacks |-> <<>>, snapshot |-> <<>>,
     invoked |-> <<>>, i |-> 1, script |-> <<>>, n |-> n, todo |-> 0, pubs |-> 0]

\* callback(data), running
HandlerFrame(cb, event_type, data, n) ==
    [Frame(Call("handler", event_type, cb, data), n) EXCEPT
        !.pc = "body", !.script = Body(cb, event_type, data)]

NoFinished == [n |-> 0, event_type |-> None, snapshot |-> <<>>, invoked |-> <<>>,
               propagated |-> FALSE]

NoMutated == [mutator |-> None, pubs |-> 0]

BusIdle ==
    [lock |-> None, store_lock |-> None, stacks |-> [t \in BusThreads |-> <<>>],
     calls |-> 0, started |-> 0, received |-> [cb \in Callbacks |-> <<>>],
     finished |-> NoFinished, mutated |-> NoMutated]

Busy(t) == bus.stacks[t] # <<>>

Top(t) == bus.stacks[t][Len(bus.stacks[t])]

Popped(stack) == SubSeq(stack, 1, Len(stack) - 1)

Replaced(stack, f) == Append(Popped(stack), f)

\* the variables no step of a bus call touches
busStepRest == <<daemonVars, ops, done, nudge, hw, pt, streams, loop, router, pads>>

\* a thread that is in no call calls subscribe, unsubscribe or publish
BusCalled(t, call) ==
    /\ ~Busy(t)
    /\ bus.started < MaxBusCalls
    /\ bus' = [bus EXCEPT
                  !.stacks[t] = <<Frame(call, IF call.op = "publish"
                                              THEN bus.calls + 1 ELSE 0)>>,
                  !.calls = IF call.op = "publish" THEN @ + 1 ELSE @,
                  !.started = @ + 1]
    /\ UNCHANGED <<busStepRest, subscribers>>

\* with self._lock: threading.Lock is not reentrant, so the thread waits
\* here while any thread, itself included, holds the lock
LockAcquired(t) ==
    /\ Busy(t)
    /\ Top(t).op \in {"subscribe", "unsubscribe", "publish"}
    /\ Top(t).pc = "acquire"
    /\ bus.lock = None
    /\ bus' = [bus EXCEPT !.lock = t,
                          !.stacks[t] = Replaced(@, [Top(t) EXCEPT !.pc = "locked"])]
    /\ UNCHANGED <<busStepRest, subscribers>>

\* the body of subscribe, and the end of its with block
SubscribeLocked(t) ==
    /\ Busy(t)
    /\ Top(t).op = "subscribe"
    /\ Top(t).pc = "locked"
    /\ subscribers' = Subscribed(subscribers, Top(t).event_type, Top(t).cb)
    /\ bus' = [bus EXCEPT !.lock = None, !.stacks[t] = Popped(@)]
    /\ UNCHANGED busStepRest

\* the body of unsubscribe, and the end of its with block
UnsubscribeLocked(t) ==
    /\ Busy(t)
    /\ Top(t).op = "unsubscribe"
    /\ Top(t).pc = "locked"
    /\ subscribers' = Unsubscribed(subscribers, Top(t).event_type, Top(t).cb)
    /\ bus' = [bus EXCEPT !.lock = None, !.stacks[t] = Popped(@)]
    /\ UNCHANGED busStepRest

\* a faulty publish that iterates self._subscribers[event_type] itself
LiveList(f) == subscribers[f.event_type]

\* callbacks = list(...): the loop of publish iterates the copy it made
CopiedList(f) == f.callbacks

\* callbacks = list(self._subscribers.get(event_type, [])), and the end of
\* the with block of publish
SnapshotTaken(t) ==
    /\ Busy(t)
    /\ Top(t).op = "publish"
    /\ Top(t).pc = "locked"
    /\ bus' = [bus EXCEPT
                  !.lock = None,
                  !.stacks[t] = Replaced(@, [Top(t) EXCEPT
                                     !.pc = "loop",
                                     !.callbacks = subscribers[Top(t).event_type],
                                     !.snapshot = subscribers[Top(t).event_type]])]
    /\ UNCHANGED <<busStepRest, subscribers>>

\* for callback in callbacks: callback(data)
CallbackInvoked(t) ==
    /\ Busy(t)
    /\ Top(t).op = "publish"
    /\ Top(t).pc = "loop"
    /\ Top(t).i <= Len(CopiedList(Top(t)))
    /\ LET f == Top(t)
           cb == CopiedList(f)[f.i]
       IN  bus' = [bus EXCEPT
                      !.stacks[t] =
                          Append(Replaced(@, [f EXCEPT !.invoked = Append(@, cb)]),
                                 HandlerFrame(cb, f.event_type, f.data, f.n)),
                      !.received[cb] = Append(@, f.n)]
    /\ UNCHANGED <<busStepRest, subscribers>>

\* the loop of publish is over and publish returns
PublishReturned(t) ==
    /\ Busy(t)
    /\ Top(t).op = "publish"
    /\ Top(t).pc = "loop"
    /\ Top(t).i > Len(CopiedList(Top(t)))
    /\ bus' = [bus EXCEPT
                  !.stacks[t] = Popped(@),
                  !.finished = [n |-> Top(t).n, event_type |-> Top(t).event_type,
                                snapshot |-> Top(t).snapshot,
                                invoked |-> Top(t).invoked, propagated |-> FALSE]]
    /\ UNCHANGED <<busStepRest, subscribers>>

\* the running callback makes its next call to the bus
HandlerCalled(t) ==
    /\ Busy(t)
    /\ Top(t).op = "handler"
    /\ Top(t).script # <<>>
    /\ LET call == Head(Top(t).script)
       IN  bus' = [bus EXCEPT
                      !.stacks[t] =
                          Append(Replaced(@, [Top(t) EXCEPT !.script = Tail(@)]),
                                 Frame(call, IF call.op = "publish"
                                             THEN bus.calls + 1 ELSE 0)),
                      !.calls = IF call.op = "publish" THEN @ + 1 ELSE @]
    /\ UNCHANGED <<busStepRest, subscribers>>

\* the running callback returns, or raises: the except clause of publish
\* logs the exception and the loop goes on; an exception it did not catch
\* would leave every call of the thread
HandlerReturned(t) ==
    /\ Busy(t)
    /\ Top(t).op = "handler"
    /\ Top(t).script = <<>>
    /\ LET cb == Top(t).cb
           below == Popped(bus.stacks[t])
           pub == below[Len(below)]
       IN  IF cb \in RaisingHandlers /\ ~ExceptClauseCatches(cb)
           THEN bus' = [bus EXCEPT
                           !.stacks[t] = <<>>,
                           !.finished = [n |-> pub.n, event_type |-> pub.event_type,
                                         snapshot |-> pub.snapshot,
                                         invoked |-> pub.invoked,
                                         propagated |-> TRUE]]
           ELSE bus' = [bus EXCEPT
                           !.stacks[t] = Replaced(below, [pub EXCEPT !.i = @ + 1])]
    /\ UNCHANGED <<busStepRest, subscribers>>

(***************************************************************************)
(* The store's calls step by step (reaper/state.py): the store lock is     *)
(* taken, the fields are assigned, the lock is released, the bus is called.*)
(***************************************************************************)
Mutators == {"update_track", "update_transport", "update_master", "update_send",
             "update_fx", "update_fx_param", "set_bank"}

\* the "type" a mutator tags its state_changed event with
Kind(m) ==
    CASE m = "update_track" -> "track"
      [] m = "update_transport" -> "transport"
      [] m = "update_master" -> "master"
      [] m = "update_send" -> "send"
      [] m = "update_fx" -> "fx"
      [] m = "update_fx_param" -> "fx_param"
      [] OTHER -> "bank"

\* the mutator as it is called in the step-by-step model
ApplyMutator(w, m) ==
    CASE m = "update_track" -> UpdateTrack(w, 1, "mute", TRUE)
      [] m = "update_transport" -> UpdateTransport(w, "playing", TRUE)
      [] m = "update_master" -> UpdateMaster(w, "volume", 500)
      [] m = "update_send" -> UpdateSend(w, 1, 0, "volume", 500)
      [] m = "update_fx" -> UpdateFx(w, 1, 0, "name", Text("str", 0))
      [] m = "update_fx_param" -> UpdateFxParam(w, 1, 0, 0, "value", 500)
      [] OTHER -> SetBank(w, 8)

\* a thread that is in no call calls a mutator, get_bank_tracks, subscribe
\* or unsubscribe
StoreCalled(t, call) ==
    /\ ~Busy(t)
    /\ bus.started < MaxStoreCalls
    /\ bus' = [bus EXCEPT !.stacks[t] = <<Frame(call, 0)>>, !.started = @ + 1]
    /\ UNCHANGED <<busStepRest, subscribers>>

\* with self._lock, in a mutator or in get_bank_tracks
StoreLockAcquired(t) ==
    /\ Busy(t)
    /\ Top(t).op \in {"mutator", "get_bank_tracks"}
    /\ Top(t).pc = "acquire"
    /\ bus.store_lock = None
    /\ bus' = [bus EXCEPT !.store_lock = t,
                          !.stacks[t] = Replaced(@, [Top(t) EXCEPT !.pc = "locked"])]
    /\ UNCHANGED <<busStepRest, subscribers>>

\* a faulty mutator that calls the bus inside its with block
PublishesInsideLock(m) == FALSE

\* the with block of a mutator ends before `if self.event_bus:`
LockReleasedBeforePublish(m) == TRUE

\* the body of a mutator's with block and the block's end; todo is the
\* number of state_changed events the call has still to publish
MutatorLocked(t) ==
    /\ Busy(t)
    /\ Top(t).op = "mutator"
    /\ Top(t).pc = "locked"
    /\ LET w == ApplyMutator(Cur, Top(t).cb)
       IN  /\ Commit([w EXCEPT !.published = published])
           /\ bus' = [bus EXCEPT
                         !.store_lock = IF LockReleasedBeforePublish(Top(t).cb)
                                        THEN None ELSE t,
                         !.stacks[t] = Replaced(@, [Top(t) EXCEPT
                                            !.pc = "unlocked",
                                            !.todo = w.published])]
    /\ UNCHANGED <<ev, toggle_pair, ops, busVars, nudge, hw, pt, streams, loop, router,
                   pads>>

\* self.event_bus.publish("state_changed", {"type": ...})
MutatorPublished(t) ==
    /\ Busy(t)
    /\ Top(t).op = "mutator"
    /\ Top(t).pc = "unlocked"
    /\ Top(t).todo > 0
    /\ bus' = [bus EXCEPT
                  !.stacks[t] =
                      Append(Replaced(@, [Top(t) EXCEPT !.todo = @ - 1,
                                                        !.pubs = @ + 1]),
                             Frame(Call("publish", "state_changed", None,
                                        Kind(Top(t).cb)), bus.calls + 1)),
                  !.calls = @ + 1]
    /\ UNCHANGED <<busStepRest, subscribers>>

\* the mutator returns
MutatorReturned(t) ==
    /\ Busy(t)
    /\ Top(t).op = "mutator"
    /\ Top(t).pc = "unlocked"
    /\ Top(t).todo = 0
    /\ bus' = [bus EXCEPT
                  !.store_lock = IF @ = t THEN None ELSE @,
                  !.stacks[t] = Popped(@),
                  !.mutated = [mutator |-> Top(t).cb, pubs |-> Top(t).pubs]]
    /\ UNCHANGED <<busStepRest, subscribers>>

\* the body of get_bank_tracks: the list is built and the lock released
BankTracksRead(t) ==
    /\ Busy(t)
    /\ Top(t).op = "get_bank_tracks"
    /\ Top(t).pc = "locked"
    /\ bus' = [bus EXCEPT !.store_lock = None, !.stacks[t] = Popped(@)]
    /\ UNCHANGED <<busStepRest, subscribers>>

(***************************************************************************)
(* LED caches (push2/buttons.py, push2/pads.py).                           *)
(***************************************************************************)
\* the color names of the model
LedColors == {"black", "red"}

\* the buttons whose LEDs the model sets
LedButtons == {"play", "record"}

\* two of the 64 pads, as (row, col)
PadIds == {<<0, 0>>, <<7, 7>>}

\* a call to a manager: the writes it issued, and what the cache held for
\* its id before; stale says the id was not set since invalidate_cache
LedCall(op, id, color, wrote, before, stale) ==
    [op |-> op, id |-> id, color |-> color, wrote |-> wrote, before |-> before,
     stale |-> stale]

NoLedCall == LedCall(None, None, None, 0, None, FALSE)

NoPadCall == LedCall(None, <<>>, None, 0, None, FALSE)

\* the threads that set the transport LEDs: the main thread, in run(), and
\* the threads the feedback server handles messages on
LedThreads == {"main", "osc1", "osc2"}

\* a thread that is in no call
LedIdle == [pc |-> "idle", playing |-> FALSE, recording |-> FALSE, color |-> None]

\* the transport LEDs after init_defaults: the ButtonManager's cache
\* (_states), the colors the device shows, and where each thread is
LedInit ==
    [states |-> [b \in LedButtons |-> "dark_gray"],
     device |-> [b \in LedButtons |-> "dark_gray"],
     thread |-> [t \in LedThreads |-> LedIdle],
     main_done |-> FALSE]

\* ButtonManager.__init__ and PadManager.__init__: no button cached, every
\* pad cached as "black"
HwInit ==
    [states |-> [b \in LedButtons |-> None],
     colors |-> [pad \in PadIds |-> "black"],
     stale |-> {},
     button_last |-> NoLedCall, button_prev |-> NoLedCall,
     pad_last |-> NoPadCall, pad_prev |-> NoPadCall,
     led |-> LedInit]

\* ButtonManager.set_color
ButtonSetColor(h, button_const, color) ==
    IF h.states[button_const] = color
    THEN [h EXCEPT !.button_prev = h.button_last,
                   !.button_last = LedCall("set_color", button_const, color, 0,
                                           h.states[button_const], FALSE)]
    ELSE [h EXCEPT !.states[button_const] = color,
                   !.button_prev = h.button_last,
                   !.button_last = LedCall("set_color", button_const, color, 1,
                                           h.states[button_const], FALSE)]

\* ButtonManager.clear_all: one write for all buttons, and the cache emptied
ButtonClearAll(h) ==
    [h EXCEPT !.states = [b \in LedButtons |-> None],
              !.button_prev = h.button_last,
              !.button_last = LedCall("clear_all", None, "black", 1, None, FALSE)]

\* a faulty PadManager.set_color without the test of the cache
PadSetColorAlways(h, pad, color) ==
    [h EXCEPT !.colors[pad] = color,
              !.stale = @ \ {pad},
              !.pad_prev = h.pad_last,
              !.pad_last = LedCall("set_color", pad, color, 1, h.colors[pad],
                                   pad \in h.stale)]

\* PadManager.set_color
PadSetColor(h, pad, color) ==
    IF h.colors[pad] = color
    THEN [h EXCEPT !.pad_prev = h.pad_last,
                   !.stale = @ \ {pad},
                   !.pad_last = LedCall("set_color", pad, color, 0, h.colors[pad],
                                        pad \in h.stale)]
    ELSE [h EXCEPT !.colors[pad] = color,
                   !.stale = @ \ {pad},
                   !.pad_prev = h.pad_last,
                   !.pad_last = LedCall("set_color", pad, color, 1, h.colors[pad],
                                        pad \in h.stale)]

\* PadManager.set_all: one write for all pads, and the cache filled
PadSetAll(h, color) ==
    [h EXCEPT !.colors = [pad \in PadIds |-> color],
              !.stale = {},
              !.pad_prev = h.pad_last,
              !.pad_last = LedCall("set_all", <<>>, color, 1, None, FALSE)]

\* PadManager.invalidate_cache: every cached color becomes ""
PadInvalidateCache(h) ==
    [h EXCEPT !.colors = [pad \in PadIds |-> ""],
              !.stale = PadIds,
              !.pad_prev = h.pad_last,
              !.pad_last = LedCall("invalidate_cache", <<>>, None, 0, None, FALSE)]

\* a call to a manager, made by a mode or by the daemon
LedCalled(h) ==
    /\ hw' = h
    /\ UNCHANGED <<daemonVars, ops, busVars, nudge, bus, pt, streams, loop, router,
                   pads>>

(***************************************************************************)
(* Clip engine mirror (playtime/client.py): the processing of one reply.   *)
(***************************************************************************)
\* the slots the model follows, as (column, row); every other slot stays
\* unknown to the mirror
Slots == {<<0, 0>>, <<2, 3>>}

\* self.slot_states.get((col, row)) of a slot the mirror has no state for
Missing == 0 - 1

\* _play_state_to_slot_state, over the names of the SlotPlayState values
PlayStateToSlotState(ps) ==
    CASE ps = "UNKNOWN" -> SLOT_EMPTY
      [] ps = "STOPPED" -> SLOT_STOPPED
      [] ps = "PLAYING" -> SLOT_PLAYING
      [] ps = "RECORDING" -> SLOT_RECORDING
      [] ps \in {"SCHEDULED_FOR_PLAY_START", "SCHEDULED_FOR_PLAY_RESTART",
                 "SCHEDULED_FOR_RECORD_START", "IGNITED"} -> SLOT_QUEUED
      [] ps \in {"SCHEDULED_FOR_PLAY_STOP", "SCHEDULED_FOR_RECORD_STOP"} -> SLOT_STOPPED
      [] ps = "PAUSED" -> SLOT_STOPPED
      [] OTHER -> SLOT_EMPTY

\* PlaytimeClient.__init__: the mirror of a client that has received nothing;
\* events lists the playtime_state_changed events of the reply in hand, and
\* track_names, which nothing reads, is left out
NewMirror ==
    [slot_states |-> [s \in Slots |-> Missing],
     slot_has_content |-> [s \in Slots |-> FALSE],
     num_columns |-> 0, num_rows |-> 0,
     track_id_to_name |-> [id \in {"t1"} |-> None],
     column_names |-> <<>>, tempo |-> 120, events |-> <<>>, changed |-> FALSE]

\* self.event_bus.publish("playtime_state_changed", {"type": type})
PublishPlaytime(m, type) == [m EXCEPT !.events = Append(@, type)]

\* a slot update of a reply; data is the persistent data as json.loads
\* reads it: ok is FALSE for text that is no JSON, clips is len(clips)
SlotUpdate(col, row, field, play_state, data) ==
    [col |-> col, row |-> row, field |-> field, play_state |-> play_state,
     data |-> data]

SlotJson(ok, clips) == [ok |-> ok, clips |-> clips]

\* _parse_slot_persistent_data
ParseSlotPersistentData(m, col, row, data) ==
    IF data.ok
    THEN [m EXCEPT !.slot_has_content[<<col, row>>] = data.clips > 0]
    ELSE m

\* the body of the loop of _process_slot_updates, for one update
ApplySlotUpdate(m, su) ==
    IF su.field = "play_state"
    THEN LET new_state == PlayStateToSlotState(su.play_state)
             old_state == m.slot_states[<<su.col, su.row>>]
         IN  IF old_state # new_state
             THEN [m EXCEPT !.slot_states[<<su.col, su.row>>] = new_state,
                            !.changed = TRUE]
             ELSE m
    ELSE IF su.field = "complete_persistent_data"
    THEN ParseSlotPersistentData(m, su.col, su.row, su.data)
    ELSE m

RECURSIVE SlotUpdatesFrom(_, _, _)
SlotUpdatesFrom(m, updates, i) ==
    IF i > Len(updates) THEN m
    ELSE SlotUpdatesFrom(ApplySlotUpdate(m, updates[i]), updates, i + 1)

\* _process_slot_updates: changed of the result is the value returned
ProcessSlotUpdates(m, reply) ==
    SlotUpdatesFrom([m EXCEPT !.changed = FALSE], reply.updates, 1)

\* a matrix update of a reply; data is the matrix JSON as json.loads reads it
MatrixUpdate(field, track_list, tempo, data, flag) ==
    [field |-> field, tracks |-> track_list, tempo |-> tempo, data |-> data,
     flag |-> flag]

\* a column of the matrix JSON: its track id ("" for none) and its slots
Column(track, slots) == [track |-> track, slots |-> slots]

MatrixJson(ok, columns, rows) == [ok |-> ok, columns |-> columns, rows |-> rows]

\* the name _parse_matrix_persistent_data gives column col_idx (0-based)
ColumnName(m, col_idx, col_data) ==
    IF col_data.track # "" /\ col_data.track \in DOMAIN m.track_id_to_name
           /\ m.track_id_to_name[col_data.track] # None
    THEN m.track_id_to_name[col_data.track]
    ELSE Text("Col", col_idx + 1)

\* slot_has_content after the clear and the rebuild from the columns
ContentOf(columns) ==
    [s \in Slots |->
        /\ s[1] + 1 <= Len(columns)
        /\ \E k \in 1..Len(columns[s[1] + 1].slots) :
               /\ columns[s[1] + 1].slots[k].row = s[2]
               /\ columns[s[1] + 1].slots[k].clips > 0]

\* _parse_matrix_persistent_data
ParseMatrixPersistentData(m, data) ==
    IF ~data.ok THEN m
    ELSE PublishPlaytime(
             [m EXCEPT !.num_columns = Len(data.columns),
                       !.num_rows = data.rows,
                       !.slot_has_content = ContentOf(data.columns),
                       !.column_names =
                           [k \in 1..Len(data.columns) |->
                                ColumnName(m, k - 1, data.columns[k])]],
             "matrix_data")

\* a reply of a stream, or the failure of the call that asks for it
Reply(ok, updates) == [ok |-> ok, updates |-> updates]

Failed == Reply(FALSE, <<>>)

\* a faulty first pass that applies no track list
TrackListsSkipped(m, updates, i) == m

\* the first pass of _process_matrix_updates: track_list
RECURSIVE TrackListsFrom(_, _, _)
TrackListsFrom(m, updates, i) ==
    IF i > Len(updates) THEN m
    ELSE IF updates[i].field = "track_list"
    THEN TrackListsFrom(
             [m EXCEPT !.track_id_to_name =
                  [id \in DOMAIN @ |->
                      IF \E k \in 1..Len(updates[i].tracks) : updates[i].tracks[k].id = id
                      THEN LET k == CHOOSE j \in 1..Len(updates[i].tracks) :
                                        /\ updates[i].tracks[j].id = id
                                        /\ \A l \in (j + 1)..Len(updates[i].tracks) :
                                               updates[i].tracks[l].id # id
                           IN  updates[i].tracks[k].name
                      ELSE @[id]]],
             updates, i + 1)
    ELSE TrackListsFrom(m, updates, i + 1)

RECURSIVE FetchInitialState(_, _, _)
RECURSIVE MatrixUpdatesFrom(_, _, _, _, _)

\* the second pass of _process_matrix_updates, from its i-th update on;
\* slot_reply and matrix_reply are what the server answers to the refetch
MatrixUpdatesFrom(m, updates, i, slot_reply, matrix_reply) ==
    IF i > Len(updates) THEN m
    ELSE LET mu == updates[i]
             after ==
                 CASE mu.field = "track_list" -> m
                   [] mu.field = "tempo" -> [m EXCEPT !.tempo = mu.tempo]
                   [] mu.field = "complete_persistent_data" ->
                          ParseMatrixPersistentData(m, mu.data)
                   [] mu.field = "everything_has_changed" /\ mu.flag ->
                          PublishPlaytime(
                              FetchInitialState(m, slot_reply, matrix_reply),
                              "full_refresh")
                   [] OTHER -> m
         IN  MatrixUpdatesFrom(after, updates, i + 1, slot_reply, matrix_reply)

\* _process_matrix_updates
ProcessMatrixUpdates(m, reply, slot_reply, matrix_reply) ==
    MatrixUpdatesFrom(TrackListsFrom(m, reply.updates, 1), reply.updates, 1,
                      slot_reply, matrix_reply)

\* _fetch_initial_state: _fetch_initial_slots, then _fetch_initial_matrix;
\* a call that fails is logged and changes nothing.  The replies to a
\* refetch carry no everything_has_changed of their own in the model.
FetchInitialState(m, slot_reply, matrix_reply) ==
    LET m1 == IF slot_reply.ok
              THEN [ProcessSlotUpdates(m, slot_reply) EXCEPT !.changed = m.changed]
              ELSE m
    IN  IF matrix_reply.ok
        THEN ProcessMatrixUpdates(m1, matrix_reply, Failed, Failed)
        ELSE m1

\* get_grid_state with its default arguments: grid[row][col], 0-based
GetGridState(m) ==
    [row \in 0..7 |->
        [col \in 0..7 |->
            LET state == IF <<col, row>> \in Slots /\ m.slot_states[<<col, row>>] # Missing
                         THEN m.slot_states[<<col, row>>]
                         ELSE SLOT_EMPTY
                content == <<col, row>> \in Slots /\ m.slot_has_content[<<col, row>>]
            IN  IF state = SLOT_STOPPED /\ ~content THEN SLOT_EMPTY ELSE state]]

\* what the queries of the mirror report: get_grid_state, column_names,
\* num_columns, num_rows
Observable(m) == <<GetGridState(m), m.column_names, m.num_columns, m.num_rows>>

\* the body of the for loop of _stream_slot_updates for one reply
SlotStreamBody(m, reply) ==
    LET after == ProcessSlotUpdates([m EXCEPT !.events = <<>>], reply)
    IN  IF after.changed THEN PublishPlaytime(after, "slots") ELSE after

\* the body of the for loop of _stream_matrix_updates for one reply
MatrixStreamBody(m, reply, slot_reply, matrix_reply) ==
    ProcessMatrixUpdates([m EXCEPT !.events = <<>>], reply, slot_reply, matrix_reply)

HasSignal(reply) ==
    \E i \in 1..Len(reply.updates) :
        reply.updates[i].field = "everything_has_changed" /\ reply.updates[i].flag

\* the last reply processed: the stream it came from, the reply, the
\* replies to the refetch it caused, and what the queries reported before
Processed(stream, reply, slot_reply, matrix_reply, before) ==
    [stream |-> stream, reply |-> reply, slot_reply |-> slot_reply,
     matrix_reply |-> matrix_reply, before |-> before]

NoProcessed == Processed(None, Reply(TRUE, <<>>), Failed, Failed, Observable(NewMirror))

\* get_slot_state
GetSlotState(m, col, row) ==
    IF <<col, row>> \in Slots /\ m.slot_states[<<col, row>>] # Missing
    THEN m.slot_states[<<col, row>>]
    ELSE SLOT_EMPTY

\* a faulty get_grid_state that reports the mirrored state as it is
ShownAsMirrored(m, ac, ar) == GetSlotState(m, ac, ar)

\* the body of the inner loop of get_grid_state, for slot (ac, ar)
ShownState(m, ac, ar) ==
    LET state == GetSlotState(m, ac, ar)
        content == <<ac, ar>> \in Slots /\ m.slot_has_content[<<ac, ar>>]
    IN  IF state = SLOT_STOPPED /\ ~content THEN SLOT_EMPTY ELSE state

\* get_grid_state(num_cols, num_rows, col_offset, row_offset): the list of
\* rows, grid[row][col] of the code being result[row + 1][col + 1]
GetGridStateOf(m, num_cols, num_rows, col_offset, row_offset) ==
    [row \in 1..num_rows |->
        [col \in 1..num_cols |->
            ShownState(m, (col - 1) + col_offset, (row - 1) + row_offset)]]

\* a call of get_grid_state: its arguments, the mirror it read and the grid
\* it returned
GridCall(num_cols, num_rows, col_offset, row_offset, m, result) ==
    [num_cols |-> num_cols, num_rows |-> num_rows, col_offset |-> col_offset,
     row_offset |-> row_offset, mirror |-> m, result |-> result]

NoGridCall == GridCall(0, 0, 0, 0, NewMirror, <<>>)

\* trigger_slot, stop_slot, trigger_scene, stop_column, stop_all
TriggerOps == {"trigger_slot", "stop_slot", "trigger_scene", "stop_column", "stop_all"}

\* what the unary RPC of a trigger operation does: it succeeds, fails with a
\* status (grpc.RpcError), or runs into its 2 s timeout (grpc.RpcError with
\* DEADLINE_EXCEEDED)
RpcOutcomes == {"ok", "rpc_error", "timeout"}

\* the RPC a trigger operation issues and the action it asks for
RpcOf(op) ==
    CASE op = "trigger_slot" -> <<"TriggerSlot", "TRIGGER">>
      [] op = "stop_slot" -> <<"TriggerSlot", "STOP">>
      [] op = "trigger_scene" -> <<"TriggerRow", "PLAY">>
      [] op = "stop_column" -> <<"TriggerColumn", "STOP">>
      [] op = "stop_all" -> <<"TriggerMatrix", "STOP_ALL_CLIPS">>

\* a faulty except clause that lets the error through
CatchesNothing(outcome) == FALSE

\* except grpc.RpcError: the clause of every trigger operation
ExceptRpcErrorCatches(outcome) == outcome \in {"rpc_error", "timeout"}

\* a call of a trigger operation: whether the client was connected, the RPCs
\* the call issued, and whether it returned or raised
TriggerCall(op, col, row, was_connected, outcome, rpcs, raised) ==
    [op |-> op, col |-> col, row |-> row, connected |-> was_connected,
     outcome |-> outcome, rpcs |-> rpcs, raised |-> raised]

NoTriggerCall == TriggerCall(None, 0, 0, FALSE, "ok", <<>>, FALSE)

\* a trigger operation, whole: the test of _connected, the request, the RPC
\* with its outcome, and the except clause
Trigger(is_connected, op, col, row, outcome) ==
    IF ~is_connected
    THEN TriggerCall(op, col, row, FALSE, outcome, <<>>, FALSE)
    ELSE TriggerCall(op, col, row, TRUE, outcome, <<RpcOf(op)>>,
                     outcome # "ok" /\ ~ExceptRpcErrorCatches(outcome))

\* a call of _parse_matrix_persistent_data in progress: the JSON it was
\* given, the mirror it found, and the columns it has rebuilt
Parse(pc, data, before, col) == [pc |-> pc, data |-> data, before |-> before, col |-> col]

NoParse == Parse("idle", MatrixJson(FALSE, <<>>, 0), NewMirror, 0)

\* no batch processed: the batch, the server's answers to the refetches it
\* caused, and the calls of _fetch_initial_slots and _fetch_initial_matrix
NoRefetch == [batch |-> <<>>, answers |-> <<>>, slots |-> 0, matrix |-> 0]

\* the client as its constructor leaves it
ClientInit ==
    [mirror |-> NewMirror, connected |-> FALSE, count |-> 0, last |-> NoProcessed,
     grid |-> NoGridCall, trig |-> NoTriggerCall, parse |-> NoParse,
     refetch |-> NoRefetch]

\* the variables no call of the client touches
clientRest == <<daemonVars, ops, busVars, nudge, bus, hw, loop, router, pads>>

\* connect(): the test request is answered and _fetch_initial_state runs
Connected(slot_reply, matrix_reply) ==
    /\ ~pt.connected
    /\ ~streams.stopped
    /\ pt' = [pt EXCEPT
                 !.connected = TRUE,
                 !.mirror = FetchInitialState([pt.mirror EXCEPT !.events = <<>>],
                                              slot_reply, matrix_reply),
                 !.last = Processed("connect", Reply(TRUE, <<>>), slot_reply,
                                    matrix_reply, Observable(pt.mirror))]
    /\ streams' = [streams EXCEPT !.channel = "open"]
    /\ UNCHANGED clientRest

\* one reply of the slot stream, received and processed
SlotReplyProcessed(reply) ==
    /\ pt.connected
    /\ pt.count < MaxReplies
    /\ pt' = [pt EXCEPT
                 !.mirror = SlotStreamBody(pt.mirror, reply),
                 !.count = @ + 1,
                 !.last = Processed("slot", reply, Failed, Failed,
                                    Observable(pt.mirror))]
    /\ UNCHANGED <<clientRest, streams>>

\* one reply of the matrix stream, received and processed
MatrixReplyProcessed(reply, slot_reply, matrix_reply) ==
    /\ pt.connected
    /\ pt.count < MaxReplies
    /\ HasSignal(reply) \/ (slot_reply = Failed /\ matrix_reply = Failed)
    /\ pt' = [pt EXCEPT
                 !.mirror = MatrixStreamBody(pt.mirror, reply, slot_reply,
                                             matrix_reply),
                 !.count = @ + 1,
                 !.last = Processed("matrix", reply, slot_reply, matrix_reply,
                                    Observable(pt.mirror))]
    /\ UNCHANGED <<clientRest, streams>>

\* _parse_matrix_persistent_data, step by step.  First step: json.loads,
\* num_columns and num_rows, then the lock is taken and slot_has_content
\* and column_names are cleared
ParseBegun(data) ==
    /\ pt.connected
    /\ pt.parse.pc = "idle"
    /\ pt.count < MaxReplies
    /\ data.ok
    /\ pt' = [pt EXCEPT
                 !.parse = Parse("locked", data, pt.mirror, 0),
                 !.count = @ + 1,
                 !.mirror = [pt.mirror EXCEPT
                                !.events = <<>>,
                                !.num_columns = Len(data.columns),
                                !.num_rows = data.rows,
                                !.slot_has_content = [s \in Slots |-> FALSE],
                                !.column_names = <<>>]]
    /\ UNCHANGED <<clientRest, streams>>

\* one turn of `for col_idx, col_data in enumerate(columns)`, under the lock
ColumnParsed ==
    /\ pt.parse.pc = "locked"
    /\ pt.parse.col < Len(pt.parse.data.columns)
    /\ LET k == pt.parse.col + 1
           columns == pt.parse.data.columns
       IN  pt' = [pt EXCEPT
                     !.parse.col = k,
                     !.mirror.column_names =
                         Append(@, ColumnName(pt.mirror, k - 1, columns[k])),
                     !.mirror.slot_has_content =
                         [s \in Slots |->
                             IF s[1] = k - 1 THEN ContentOf(columns)[s] ELSE @[s]]]
    /\ UNCHANGED <<clientRest, streams>>

\* the for loop is over: the lock is released and matrix_data is published
ParseEnded ==
    /\ pt.parse.pc = "locked"
    /\ pt.parse.col = Len(pt.parse.data.columns)
    /\ pt' = [pt EXCEPT
                 !.parse.pc = "idle",
                 !.mirror = PublishPlaytime(pt.mirror, "matrix_data")]
    /\ UNCHANGED <<clientRest, streams>>

\* a reply of the slot stream is processed when the slot thread gets the lock
SlotReplyLocked(reply) ==
    /\ pt.parse.pc = "idle"
    /\ SlotReplyProcessed(reply)

\* a trigger operation is called and returns, or raises
TriggerCalled(op, col, row, outcome) ==
    /\ pt' = [pt EXCEPT !.trig = Trigger(pt.connected, op, col, row, outcome)]
    /\ UNCHANGED <<clientRest, streams>>

\* get_grid_state is called and returns
GridRead(num_cols, num_rows, col_offset, row_offset) ==
    /\ pt' = [pt EXCEPT
                 !.grid = GridCall(num_cols, num_rows, col_offset, row_offset,
                                   pt.mirror,
                                   GetGridStateOf(pt.mirror, num_cols, num_rows,
                                                  col_offset, row_offset))]
    /\ UNCHANGED <<clientRest, streams>>

\* the names of the SlotPlayState values, and one for a number that is none
PlayStates ==
    {"UNKNOWN", "STOPPED", "PLAYING", "RECORDING", "SCHEDULED_FOR_PLAY_START",
     "SCHEDULED_FOR_PLAY_RESTART", "SCHEDULED_FOR_RECORD_START", "IGNITED",
     "SCHEDULED_FOR_PLAY_STOP", "SCHEDULED_FOR_RECORD_STOP", "PAUSED", "other"}

\* a reply of the slot stream with one play state, or the content, of a slot
GridSlotReplies ==
    {Reply(TRUE, <<SlotUpdate(s[1], s[2], "play_state", ps, SlotJson(FALSE, 0))>>) :
         s \in Slots, ps \in PlayStates}
      \cup {Reply(TRUE, <<SlotUpdate(s[1], s[2], "complete_persistent_data",
                                     "UNKNOWN", SlotJson(TRUE, clips))>>) :
                s \in Slots, clips \in {0, 1}}

\* the arguments get_grid_state is called with (session.py calls it with
\* 8, 8 and the scroll offsets): <<num_cols, num_rows, col_offset, row_offset>>
GridArgs ==
    {<<8, 8, 0, 0>>, <<1, 1, 0, 0>>, <<1, 1, 2, 3>>, <<3, 4, 0, 0>>, <<2, 1, 1, 3>>,
     <<8, 8, 2, 3>>, <<0, 0, 0, 0>>}

\* the slot updates of the model
SlotUpdates ==
    {SlotUpdate(0, 0, "play_state", "PLAYING", SlotJson(FALSE, 0)),
     SlotUpdate(2, 3, "play_state", "PLAYING", SlotJson(FALSE, 0)),
     SlotUpdate(2, 3, "play_state", "STOPPED", SlotJson(FALSE, 0)),
     SlotUpdate(2, 3, "complete_persistent_data", "UNKNOWN", SlotJson(TRUE, 1)),
     SlotUpdate(2, 3, "complete_persistent_data", "UNKNOWN", SlotJson(TRUE, 0)),
     SlotUpdate(2, 3, "complete_persistent_data", "UNKNOWN", SlotJson(FALSE, 0))}

\* the replies of the slot stream: one or two updates
SlotReplies ==
    {Reply(TRUE, <<u>>) : u \in SlotUpdates}
        \cup {Reply(TRUE, <<u, v>>) : u \in SlotUpdates, v \in SlotUpdates}

NoJson == MatrixJson(FALSE, <<>>, 0)

\* one column on track t1 with a clip in row 0; one row
SmallMatrix ==
    MatrixJson(TRUE, <<Column("t1", <<[row |-> 0, clips |-> 1]>>)>>, 1)

\* three columns, the third on track t1 with a clip in row 3; four rows
WideMatrix ==
    MatrixJson(TRUE, <<Column("", <<>>), Column("t9", <<>>),
                       Column("t1", <<[row |-> 3, clips |-> 1]>>)>>, 4)

\* the matrix updates of the model
MatrixUpdates ==
    {MatrixUpdate("track_list", <<[id |-> "t1", name |-> Text("Drums", 0)]>>,
                  0, NoJson, FALSE),
     MatrixUpdate("tempo", <<>>, 140, NoJson, FALSE),
     MatrixUpdate("complete_persistent_data", <<>>, 0, SmallMatrix, FALSE),
     MatrixUpdate("complete_persistent_data", <<>>, 0, WideMatrix, FALSE),
     MatrixUpdate("complete_persistent_data", <<>>, 0, NoJson, FALSE),
     MatrixUpdate("everything_has_changed", <<>>, 0, NoJson, TRUE)}

\* the replies of the matrix stream: one or two updates
MatrixReplies ==
    {Reply(TRUE, <<u>>) : u \in MatrixUpdates}
        \cup {Reply(TRUE, <<u, v>>) : u \in MatrixUpdates, v \in MatrixUpdates}

\* what the server answers when the slots are fetched: nothing it can give,
\* no slot, or the slots that are not idle
FirstSlotReplies ==
    {Failed, Reply(TRUE, <<>>),
     Reply(TRUE, <<SlotUpdate(2, 3, "play_state", "PLAYING", SlotJson(FALSE, 0))>>)}

\* what the server answers when the matrix is fetched
FirstMatrixReplies ==
    {Failed,
     Reply(TRUE, <<MatrixUpdate("complete_persistent_data", <<>>, 0, SmallMatrix,
                                FALSE)>>),
     Reply(TRUE, <<MatrixUpdate("track_list",
                                <<[id |-> "t1", name |-> Text("Drums", 0)]>>,
                                0, NoJson, FALSE),
                   MatrixUpdate("complete_persistent_data", <<>>, 0, WideMatrix,
                                FALSE)>>)}

(***************************************************************************)
(* Clip engine streaming loops (playtime/client.py): the two threads of    *)
(* start_streaming, step by step.                                          *)
(***************************************************************************)
\* _stream_slot_updates and _stream_matrix_updates
Loops == {"slot", "matrix"}

\* start_streaming has not been called: no channel, no thread; failures
\* counts the streams of a loop that broke, applied_at is that count when
\* the loop last processed a reply, at_stop is where stop() found the loop;
\* threads counts the live threads of each loop and calls the calls made on
\* the client when they are counted; since_open is whether a loop has slept
\* since it last asked for a stream ("none" before it first asks)
StreamsInit ==
    [running |-> FALSE, channel |-> "none", started |-> FALSE, stopped |-> FALSE,
     pc |-> [s \in Loops |-> "idle"], failures |-> [s \in Loops |-> 0],
     applied_at |-> [s \in Loops |-> 0], at_stop |-> [s \in Loops |-> "idle"],
     threads |-> [s \in Loops |-> 0], calls |-> 0,
     since_open |-> [s \in Loops |-> "none"]]

\* connect(): the test request fails, or the channel cannot be made
ConnectFailed ==
    /\ ~pt.connected
    /\ ~streams.stopped
    /\ streams' = [streams EXCEPT !.channel = "open"]
    /\ UNCHANGED <<clientRest, pt>>

\* start_streaming(): nothing unless connected; _running is set and the two
\* threads are started
StartStreaming ==
    /\ pt.connected
    /\ ~streams.started
    /\ streams' = [streams EXCEPT !.running = TRUE, !.started = TRUE,
                                  !.pc = [s \in Loops |-> "loop"]]
    /\ UNCHANGED <<clientRest, pt>>

\* a faulty stop() that leaves the channel open
ChannelLeftOpen(channel) == channel

\* self._channel.close(): grpc ends every call of the channel
ChannelClosed(channel) == IF channel = "none" THEN "none" ELSE "closed"

\* stop(); the model calls it once, on a client that is streaming, and makes
\* no call of connect() or start_streaming() after it
Stop ==
    /\ streams.started
    /\ ~streams.stopped
    /\ streams' = [streams EXCEPT !.running = FALSE,
                                  !.channel = ChannelClosed(@),
                                  !.stopped = TRUE,
                                  !.at_stop = streams.pc]
    /\ pt' = [pt EXCEPT !.connected = FALSE]
    /\ UNCHANGED clientRest

\* while self._running
LoopChecked(s) ==
    /\ streams.pc[s] = "loop"
    /\ streams' = [streams EXCEPT !.pc[s] = IF streams.running THEN "open" ELSE "done"]
    /\ UNCHANGED <<clientRest, pt>>

\* stream = self._stub.GetOccasional...Updates(req): a closed channel
\* raises at once, an open one gives the stream the for loop then reads
StreamOpened(s) ==
    /\ streams.pc[s] = "open"
    /\ streams' = [streams EXCEPT
                      !.pc[s] = IF streams.channel = "open" THEN "read" ELSE "error",
                      !.since_open[s] = "no_sleep"]
    /\ UNCHANGED <<clientRest, pt>>

\* the server sends a reply and the blocked read returns it
UpdateReceived(s) ==
    /\ streams.pc[s] = "read"
    /\ streams.channel = "open"
    /\ pt.count + Cardinality({l \in Loops : streams.pc[l] = "got"}) < MaxReplies
    /\ streams' = [streams EXCEPT !.pc[s] = "got"]
    /\ UNCHANGED <<clientRest, pt>>

\* the stream breaks: the blocked read raises grpc.RpcError
StreamFailed(s) ==
    /\ streams.pc[s] = "read"
    /\ streams.channel = "open"
    /\ streams.failures[s] < MaxFailures
    /\ streams' = [streams EXCEPT !.pc[s] = "error", !.failures[s] = @ + 1]
    /\ UNCHANGED <<clientRest, pt>>

\* the server ends the stream: the for loop is over and nothing is raised
StreamEnded(s) ==
    /\ streams.pc[s] = "read"
    /\ streams.channel = "open"
    /\ streams' = [streams EXCEPT !.pc[s] = "loop"]
    /\ UNCHANGED <<clientRest, pt>>

\* the channel was closed under the blocked read: it raises grpc.RpcError
StreamCancelled(s) ==
    /\ streams.pc[s] = "read"
    /\ streams.channel = "closed"
    /\ streams' = [streams EXCEPT !.pc[s] = "error"]
    /\ UNCHANGED <<clientRest, pt>>

\* if not self._running: break
StopSeen(s) ==
    /\ streams.pc[s] = "got"
    /\ ~streams.running
    /\ streams' = [streams EXCEPT !.pc[s] = "loop"]
    /\ UNCHANGED <<clientRest, pt>>

\* the slot loop processes the reply it received and reads on
SlotUpdateProcessed(reply) ==
    /\ streams.pc["slot"] = "got"
    /\ streams.running
    /\ pt' = [pt EXCEPT
                 !.mirror = SlotStreamBody(pt.mirror, reply),
                 !.count = @ + 1,
                 !.last = Processed("slot", reply, Failed, Failed,
                                    Observable(pt.mirror))]
    /\ streams' = [streams EXCEPT !.pc["slot"] = "read",
                                  !.applied_at["slot"] = streams.failures["slot"]]
    /\ UNCHANGED clientRest

\* the matrix loop processes the reply it received and reads on
MatrixUpdateProcessed(reply) ==
    /\ streams.pc["matrix"] = "got"
    /\ streams.running
    /\ pt' = [pt EXCEPT
                 !.mirror = MatrixStreamBody(pt.mirror, reply, Failed, Failed),
                 !.count = @ + 1,
                 !.last = Processed("matrix", reply, Failed, Failed,
                                    Observable(pt.mirror))]
    /\ streams' = [streams EXCEPT !.pc["matrix"] = "read",
                                  !.applied_at["matrix"] = streams.failures["matrix"]]
    /\ UNCHANGED clientRest

\* a faulty except clause that ends the thread
AfterErrorGivesUp(is_running) == "done"

\* except grpc.RpcError / except Exception: if self._running, log and sleep
AfterError(is_running) == IF is_running THEN "backoff" ELSE "loop"

ErrorHandled(s) ==
    /\ streams.pc[s] = "error"
    /\ streams' = [streams EXCEPT !.pc[s] = AfterError(streams.running)]
    /\ UNCHANGED <<clientRest, pt>>

\* time.sleep(2) returns
BackoffEnded(s) ==
    /\ streams.pc[s] = "backoff"
    /\ streams' = [streams EXCEPT !.pc[s] = "loop", !.since_open[s] = "slept"]
    /\ UNCHANGED <<clientRest, pt>>

\* the replies the streams deliver in the model of the loops
LoopSlotReplies ==
    {Reply(TRUE, <<SlotUpdate(2, 3, "play_state", ps, SlotJson(FALSE, 0))>>) :
         ps \in {"PLAYING", "STOPPED"}}

\* what GetOccasionalMatrixUpdates answers to connect() in that model
LoopFirstReplies ==
    {Failed,
     Reply(TRUE, <<MatrixUpdate("complete_persistent_data", <<>>, 0, SmallMatrix,
                                FALSE)>>)}

LoopMatrixReplies ==
    {Reply(TRUE, <<MatrixUpdate("complete_persistent_data", <<>>, 0, SmallMatrix,
                                FALSE)>>),
     Reply(TRUE, <<MatrixUpdate("tempo", <<>>, 140, NoJson, FALSE)>>)}

(***************************************************************************)
(* Feedback server: the calls of start and stop.                           *)
(***************************************************************************)
\* the variables start and stop of the feedback server leave alone
routerRest == <<daemonVars, ops, busVars, nudge, bus, hw, pt, streams, loop, pads>>

RouterStarted(bind_ok) ==
    /\ router.sockets < MaxListeners
    /\ router' = RouterStart(router, bind_ok)
    /\ UNCHANGED routerRest

RouterStopped ==
    /\ router' = RouterStop(router)
    /\ UNCHANGED routerRest

(***************************************************************************)
(* The display loop (main.py run and shutdown).                            *)
(***************************************************************************)
\* run() has not been called; frames and errors count, up to MaxFrames, the
\* frames sent and the frames that failed
LoopInit ==
    [pc |-> "idle", frames |-> 0, errors |-> 0, shutdowns |-> 0,
     last_raised |-> FALSE]

\* the variables the display loop leaves alone
loopRest == <<ops, busVars, nudge, bus, hw, pt, streams, pads>>

\* run() when push2.connect() fails: the feedback server is stopped again
\* and run returns
RunFailed ==
    /\ loop.pc = "idle"
    /\ loop' = [loop EXCEPT !.pc = "failed"]
    /\ router' = RouterStop(RouterStart(router, TRUE))
    /\ UNCHANGED <<daemonVars, loopRest>>

\* while self._running
LoopTested ==
    /\ loop.pc = "test"
    /\ loop' = [loop EXCEPT !.pc = IF running THEN "render" ELSE "finally"]
    /\ UNCHANGED <<daemonVars, loopRest, router>>

\* self._mode.render(self): SessionMode.render reads daemon.playtime, which
\* no code sets; the other modes draw their screen
RenderRaises(m) == m = "session"

\* a faulty loop without the inner try
LoopExceptMissing(raised) == FALSE

\* except Exception, inside the loop
LoopExceptCatches(raised) == raised

\* one frame: render and send_frame inside the try; send_ok is whether the
\* display takes the frame
FrameRendered(send_ok) ==
    /\ loop.pc = "render"
    /\ LET raised == RenderRaises(mode) \/ ~send_ok
       IN  loop' = [loop EXCEPT
                       !.pc = IF raised /\ ~LoopExceptCatches(raised)
                              THEN "finally" ELSE "sleep",
                       !.frames = IF raised THEN @ ELSE Min(@ + 1, MaxFrames),
                       !.errors = IF raised THEN Min(@ + 1, MaxFrames) ELSE @,
                       !.last_raised = raised]
    /\ UNCHANGED <<daemonVars, loopRest, router>>

\* await asyncio.sleep(frame_interval) returns
Slept ==
    /\ loop.pc = "sleep"
    /\ loop' = [loop EXCEPT !.pc = "test"]
    /\ UNCHANGED <<daemonVars, loopRest, router>>

\* signal_handler of main(): the event loop runs it while run() awaits
SignalReceived ==
    /\ loop.pc = "sleep"
    /\ running
    /\ Commit([Cur EXCEPT !.running = FALSE, !.trace = trace, !.sent = sent,
                          !.published = published, !.unlocked = unlocked])
    /\ UNCHANGED <<ev, toggle_pair, loopRest, loop, router>>

\* finally: self.shutdown()
ShutdownDone ==
    /\ loop.pc = "finally"
    /\ Commit([Cur EXCEPT !.running = FALSE, !.trace = trace, !.sent = sent,
                          !.published = published, !.unlocked = unlocked])
    /\ loop' = [loop EXCEPT !.pc = "ended", !.shutdowns = @ + 1]
    /\ router' = RouterStop(router)
    /\ UNCHANGED <<ev, toggle_pair, loopRest>>

NudgeOps == {"track_volume", "track_pan", "master_volume", "send_volume", "fx_param"}

\* the nudge operation of the command client a caller turns to
ApplyNudge(w, op, current, increment) ==
    CASE op = "track_volume" -> NudgeTrackVolume(w, 1, current, increment)
      [] op = "track_pan" -> NudgeTrackPan(w, 1, current, increment)
      [] op = "master_volume" -> NudgeMasterVolume(w, current, increment)
      [] op = "send_volume" -> NudgeSendVolume(w, 1, 0, current, increment)
      [] OTHER -> NudgeFxParam(w, 1, 0, 0, current, increment)

NoNudge == [op |-> None, start |-> 0, k |-> 0, cur |-> 0, given |-> 0, inc |-> 0,
            ret |-> 0, sent_val |-> 0, calls |-> 0]

\* the current values a caller starts from: -0.1, 0, 0.5, 0.99, 1.4
NudgeStarts == {-100, 0, 500, 990, 1400}

\* a caller picks a control and the value it holds for it
NudgeBegin(op, v) ==
    /\ nudge.op = None
    /\ nudge' = [NoNudge EXCEPT !.op = op, !.start = v, !.cur = v]
    /\ UNCHANGED <<laterVars, daemonVars, ops, busVars>>

\* the caller nudges the control with the value it holds and keeps the value
\* returned, as the modes do; start and k follow the run of +1 nudges
NudgeCalled(increment) ==
    /\ nudge.op # None
    /\ nudge.calls < MaxNudges
    /\ LET w == ApplyNudge(Cur, nudge.op, nudge.cur, increment)
       IN  /\ nudge' = [op |-> nudge.op,
                        start |-> IF increment = 1 THEN nudge.start ELSE w.num,
                        k |-> IF increment = 1 THEN nudge.k + 1 ELSE 0,
                        cur |-> w.num, given |-> nudge.cur, inc |-> increment,
                        ret |-> w.num, sent_val |-> w.sent[Len(w.sent)].val,
                        calls |-> nudge.calls + 1]
           /\ sent' = w.sent
    /\ UNCHANGED <<running, mode, previous_mode, shift_held, lower_row_mode,
                   encoder_mode, fx_idx, param_bank, page, bank_offset,
                   selected_track, tracks, master, transport, fx, dirty, open,
                   pairing_ok, trace, published, unlocked, ev, toggle_pair, ops, busVars,
                   laterVars>>

(***************************************************************************)
(* Pads (push2/pads.py, push2/scales.py and the modes' pad handlers).      *)
(***************************************************************************)
\* the pads of the model, as (row, col): a pad of the drum mode's 4x4 block
\* and a pad of its step rows
PlayPads == {<<7, 0>>, <<0, 0>>}

\* SCALES["Major"], the scale of a new ScaleState
MajorIntervals == {0, 2, 4, 5, 7, 9, 11}

\* no note: what dict.pop((row, col), None) gives for a pad that holds none
NoNote == <<>>

Note(channel, note) == <<channel, note>>

\* ScaleState.base_note
BaseNote(p) == 36 + p.root + p.octave_offset * 12

\* ScaleState.pad_note, with the row interval of the layout "4th"
PadNote(p, pad) == BaseNote(p) + (7 - pad[1]) * 5 + pad[2]

\* ScaleState.note_color, in_key being False
NoteColor(p, midi_note) ==
    LET semitone == midi_note % 12
    IN  IF semitone = p.root THEN "blue"
        ELSE IF \E iv \in MajorIntervals : (p.root + iv) % 12 = semitone
        THEN "turquoise"
        ELSE "dark_gray"

\* ScaleState.octave_up and octave_down
OctaveUp(p) ==
    IF BaseNote(p) + 12 <= 108 THEN [p EXCEPT !.octave_offset = @ + 1] ELSE p

OctaveDown(p) ==
    IF BaseNote(p) - 12 >= 0 THEN [p EXCEPT !.octave_offset = @ - 1] ELSE p

\* ScaleState.set_root
SetRoot(p, root) == [p EXCEPT !.root = root % 12]

\* PadManager.set_color: the device is written when the cache differs
SetColor(p, pad, color) ==
    IF p.colors[pad] = color THEN p
    ELSE [p EXCEPT !.device[pad] = color, !.colors[pad] = color]

\* PadManager.invalidate_cache
InvalidateCache(p) == [p EXCEPT !.colors = [pad \in PlayPads |-> ""]]

\* PadManager.rebuild_grid: every pad is set, through the cache, to the
\* color of its note
RebuildGrid(p) ==
    LET grid == [pad \in PlayPads |-> NoteColor(p, PadNote(p, pad))]
    IN  [p EXCEPT !.grid_colors = grid,
                  !.device = [pad \in PlayPads |->
                                  IF p.colors[pad] = grid[pad] THEN p.device[pad]
                                  ELSE grid[pad]],
                  !.colors = grid]

\* PadManager.highlight_pad and restore_pad
HighlightPad(p, pad) == SetColor(p, pad, "white")

RestorePad(p, pad) == SetColor(p, pad, p.grid_colors[pad])

\* DrumMode._is_drum_pad, _drum_pad_index, _step_index
IsDrumPad(pad) == 4 <= pad[1] /\ pad[1] <= 7 /\ 0 <= pad[2] /\ pad[2] <= 3

DrumPadIndex(pad) == (7 - pad[1]) * 4 + pad[2]

\* the color DrumMode._update_pad_colors gives a pad; step_on is the step
\* of the selected pad that the step pad of the model shows
DrumColor(p, pad) ==
    IF IsDrumPad(pad)
    THEN IF DrumPadIndex(pad) = p.selected_pad THEN "orange" ELSE "yellow"
    ELSE IF pad[1] <= 1
    THEN IF p.step_on THEN "green" ELSE "dark_gray"
    ELSE "black"

\* DrumMode._update_pad_colors: every pad is written on the device
DrumUpdatePadColors(p) ==
    [p EXCEPT !.device = [pad \in PlayPads |-> DrumColor(p, pad)]]

\* the last pad event: the pad, the note-on its press sent and the note-off
\* its release sent
PadEvent(kind, pad, on, off) == [kind |-> kind, pad |-> pad, on |-> on, off |-> off]

NoPadEvent == PadEvent(None, <<>>, NoNote, NoNote)

\* the streaming thread outside publish; left are the callbacks of the
\* snapshot that publish has still to call
HandlerIdle == [pc |-> "idle", left |-> 0]

\* the pads after connect(): ScaleState.__init__, DrumMode.__init__,
\* SessionMode.__init__ and init_default_layout.  down are the pads held, on
\* the note-on sent for each of them, events the pad and button events of a
\* bounded run; daemon is whether SessionMode._daemon is set, handlers the
\* bus's list for playtime_state_changed and bound_methods the number of
\* method objects made from SessionMode._on_playtime_changed; handler is
\* where the streaming thread is in _on_playtime_changed, and since_exit
\* holds from the return of SessionMode.exit to the main thread's next write
\* or event
PadsInit ==
    LET p0 == [octave_offset |-> 0, root |-> 0, drum_bank |-> 36, selected_pad |-> 0,
               step_on |-> FALSE,
               held_notes |-> [pad \in PlayPads |-> NoNote],
               colors |-> [pad \in PlayPads |-> "black"],
               grid_colors |-> [pad \in PlayPads |-> "black"],
               device |-> [pad \in PlayPads |-> "black"],
               down |-> {}, on |-> [pad \in PlayPads |-> NoNote],
               daemon |-> FALSE, handlers |-> <<>>, bound_methods |-> 0,
               handler |-> HandlerIdle, since_exit |-> FALSE,
               events |-> 0, last |-> NoPadEvent]
    IN  RebuildGrid(p0)

\* a world and the pads, as a handler leaves them
WithPads(w, p) == [w |-> w, p |-> p]

\* note_on / note_off of the OSC client, for a note within 0..127
NoteOn(wp, pad, channel, note) ==
    IF 0 <= note /\ note <= 127
    THEN WithPads(Send(wp.w, Msg("note_on", channel, note, 100)),
                  [wp.p EXCEPT !.on[pad] = Note(channel, note)])
    ELSE wp

NoteOff(wp, channel, note) ==
    IF 0 <= note /\ note <= 127
    THEN WithPads(Send(wp.w, Msg("note_off", channel, note, 0)),
                  [wp.p EXCEPT !.last.off = Note(channel, note)])
    ELSE wp

\* on_pad_pressed of the mixer, device and browser modes
NotePadPressed(w, p, pad) ==
    NoteOn(WithPads(w, HighlightPad(p, pad)), pad, 0, PadNote(p, pad))

\* on_pad_released of the mixer, device and browser modes: the note is
\* computed again from the scale state
NotePadReleased(w, p, pad) ==
    NoteOff(WithPads(w, RestorePad(p, pad)), 0, PadNote(p, pad))

\* DrumMode.on_pad_pressed
DrumPadPressed(w, p, pad) ==
    IF IsDrumPad(pad)
    THEN LET note == p.drum_bank + DrumPadIndex(pad)
             p1 == [p EXCEPT !.selected_pad = DrumPadIndex(pad),
                             !.held_notes[pad] = Note(9, note)]
             wp == NoteOn(WithPads(w, HighlightPad(p1, pad)), pad, 9, note)
         IN  WithPads(wp.w, DrumUpdatePadColors(wp.p))
    ELSE WithPads(w, DrumUpdatePadColors([p EXCEPT !.step_on = ~@]))

\* DrumMode.on_pad_released: the note is the one kept in _held_notes
DrumPadReleased(w, p, pad) ==
    IF IsDrumPad(pad)
    THEN LET held == p.held_notes[pad]
             p1 == [p EXCEPT !.held_notes[pad] = NoNote]
             wp == IF held = NoNote THEN WithPads(w, p1)
                   ELSE NoteOff(WithPads(w, p1), held[1], held[2])
         IN  WithPads(wp.w, DrumUpdatePadColors(wp.p))
    ELSE WithPads(w, p)

\* _on_pad_pressed: the active mode's on_pad_pressed.  The session mode's
\* reads daemon.playtime; the overlay has the empty method of Mode
OnPadPressed(w, p, pad) ==
    CASE w.mode \in {"mixer", "device", "browser"} -> NotePadPressed(w, p, pad)
      [] w.mode = "drum" -> DrumPadPressed(w, p, pad)
      [] w.mode = "session" -> WithPads(ReadDaemonPlaytime(w), p)
      [] OTHER -> WithPads(w, p)

\* _on_pad_released
OnPadReleased(w, p, pad) ==
    CASE w.mode \in {"mixer", "device", "browser"} -> NotePadReleased(w, p, pad)
      [] w.mode = "drum" -> DrumPadReleased(w, p, pad)
      [] w.mode = "session" -> WithPads(ReadDaemonPlaytime(w), p)
      [] OTHER -> WithPads(w, p)

\* the method object an evaluation of self._on_playtime_changed yields: a new
\* object at every evaluation, named by its number
BoundMethod(p) == p.bound_methods + 1

\* [cb for cb in self._subscribers[event_type] if cb is not callback], for
\* method objects: "is not" compares the objects, not what they are bound to
UnsubscribedMethod(handlers, callback) ==
    SelectSeq(handlers, LAMBDA cb : cb # callback)

\* SessionMode.enter up to its subscribe
SessionEntered(p) ==
    [p EXCEPT !.daemon = TRUE, !.handlers = Append(@, BoundMethod(p)),
              !.bound_methods = @ + 1]

\* SessionMode.exit up to its unsubscribe
SessionExited(p) ==
    [p EXCEPT !.daemon = FALSE,
              !.handlers = UnsubscribedMethod(@, BoundMethod(p)),
              !.bound_methods = @ + 1]

\* what one call on a mode does to the pads: the exits of the drum, session
\* and scale modes, the drum mode's enter, its bank buttons, and the
\* overlay's root buttons.  SessionMode.enter reads daemon.playtime before
\* it has written a pad
CallOnPads(p, c) ==
    CASE c.call = "exit" /\ c.mode = "drum" -> RebuildGrid(InvalidateCache(p))
      [] c.call = "exit" /\ c.mode = "session" ->
             RebuildGrid(InvalidateCache(SessionExited(p)))
      [] c.call = "enter" /\ c.mode = "session" -> SessionEntered(p)
      [] c.call = "exit" /\ c.mode = "scale" -> RebuildGrid(p)
      [] c.call = "enter" /\ c.mode = "drum" -> DrumUpdatePadColors(p)
      [] c.call = "on_button" /\ c.mode = "drum" /\ c.arg = UPPER_ROW[1] ->
             DrumUpdatePadColors([p EXCEPT !.drum_bank = Max(0, @ - 16)])
      [] c.call = "on_button" /\ c.mode = "drum" /\ c.arg = UPPER_ROW[2] ->
             DrumUpdatePadColors([p EXCEPT !.drum_bank = Min(112, @ + 16)])
      [] c.call = "on_button" /\ c.mode = "scale" /\ InSeq(UPPER_ROW, c.arg) ->
             RebuildGrid(SetRoot(p, IndexOf(UPPER_ROW, c.arg)))
      [] OTHER -> p

\* SessionMode.exit
IsSessionExit(c) == c.call = "exit" /\ c.mode = "session"

RECURSIVE CallsOnPads(_, _, _)
CallsOnPads(p, calls, i) ==
    IF i > Len(calls) THEN p
    ELSE LET q == CallOnPads(p, calls[i])
             since == IsSessionExit(calls[i]) \/ (p.since_exit /\ q = p)
         IN  CallsOnPads([q EXCEPT !.since_exit = since], calls, i + 1)

\* _on_button, for the pads: the octave buttons, handled before any mode,
\* and the calls the button made on the modes
ButtonOnPads(p, button, calls) ==
    CASE button = "octave_up" -> RebuildGrid(OctaveUp(p))
      [] button = "octave_down" -> RebuildGrid(OctaveDown(p))
      [] OTHER -> CallsOnPads(p, calls, 1)

(***************************************************************************)
(* Initial state: the objects as their constructors leave them.            *)
(***************************************************************************)
Init ==
    /\ running = FALSE
    /\ mode = "mixer"
    /\ previous_mode = None
    /\ shift_held = FALSE
    /\ lower_row_mode = "select"
    /\ encoder_mode = "volume"
    /\ fx_idx = 0
    /\ param_bank = 0
    /\ page = 0
    /\ bank_offset = 0
    /\ selected_track = 1
    /\ tracks = [n \in TrackNums |-> TrackInfo(n)]
    /\ master = [volume |-> DEFAULT_VOLUME, pan |-> DEFAULT_PAN, vu |-> 0,
                 volume_str |-> Text("0.0 dB", 0)]
    /\ transport = [playing |-> FALSE, recording |-> FALSE, paused |-> FALSE,
                    repeat |-> FALSE, tempo |-> DEFAULT_TEMPO,
                    tempo_str |-> Text("120.00", 0),
                    time_str |-> Text("0:00.000", 0),
                    beat_str |-> Text("1.1.00", 0)]
    /\ fx = [n \in TrackNums |-> <<>>]
    /\ dirty = TRUE
    /\ ops = 0
    /\ open = [m \in Modes |-> FALSE]
    /\ pairing_ok = TRUE
    /\ trace = <<>>
    /\ sent = <<>>
    /\ published = 0
    /\ unlocked = {}
    /\ ev = Event("init", None, "mixer", None, FALSE, NoFeedback, 0, FALSE)
    /\ toggle_pair = NoPair
    /\ subscribers = [t \in EventTypes |-> <<>>]
    /\ done = NoPublish
    /\ nudge = NoNudge
    /\ bus = BusIdle
    /\ hw = HwInit
    /\ pt = ClientInit
    /\ streams = StreamsInit
    /\ loop = LoopInit
    /\ router = RouterInit
    /\ pads = PadsInit

\* the buttons released in the model: shift, and one that changes nothing
ReleasedButtons == {"shift", "play"}

\* every button but those that only cycle values no mode switch reads: the
\* upper row (encoder mode, parameter bank) and Automate (the track's automode)
DispatchButtons == (GlobalButtons \ {"automate"}) \cup OtherButtons
                       \cup {LOWER_ROW[i] : i \in 1..8}

NextModes ==
    \/ Run
    \/ \E button \in DispatchButtons : ButtonPressed(button)
    \/ \E button \in ReleasedButtons : ButtonReleased(button)

\* the mode dispatcher under every sequence of these button events
SpecModes == Init /\ [][NextModes]_vars

\* the globally bound buttons, and one button the scale overlay does not handle
GlobalSpecButtons == GlobalButtons \cup {"up"}

NextGlobal ==
    \/ Run
    \/ \E button \in GlobalSpecButtons : ButtonPressed(button)
    \/ \E button \in ReleasedButtons : ButtonReleased(button)

\* the dispatcher under every sequence of presses of the global buttons
SpecGlobal == Init /\ [][NextGlobal]_vars

\* the encoders turned in the model: a track encoder, master and tempo
StoreEncoders == {TRACK_ENCODERS[1], MASTER_ENCODER, TEMPO_ENCODER}

\* one tick either way
Increments == {-1, 1}

\* the buttons that change what the track encoders nudge: the mode, the
\* mixer's encoder mode, the device mode's parameter bank and FX index
StoreButtons == {"device", UPPER_ROW[1], UPPER_ROW[2], UPPER_ROW[8]}

NextStore ==
    \/ Run
    \/ \E fb \in Feedbacks : FeedbackReceived(fb)
    \/ \E encoder \in StoreEncoders, increment \in Increments :
           EncoderRotated(encoder, increment)
    \/ \E button \in StoreButtons : ButtonPressedCounted(button)

\* the store under feedback messages, encoder turns and mode changes
SpecStore == Init /\ [][NextStore]_vars

NextBus ==
    \/ \E event_type \in EventTypes, callback \in Handlers :
           Subscribe(event_type, callback)
    \/ \E event_type \in EventTypes, callback \in Handlers :
           Unsubscribe(event_type, callback)
    \/ \E event_type \in EventTypes : Publish(event_type)

\* the event bus under every sequence of its three operations
SpecBus == Init /\ [][NextBus]_vars

\* the calls made from outside a handler: the main thread makes every call,
\* the server's thread subscribes and unsubscribes while the main thread may
\* be dispatching
OuterCalls(t) ==
    IF t = "main"
    THEN {Call(op, "state_changed", cb, None) :
              op \in {"subscribe", "unsubscribe"},
              cb \in {"h1", "h2", "resub", "unsub", "repub"}}
         \cup {Call("publish", "state_changed", None, "e1")}
    ELSE {Call(op, "state_changed", "h1", None) :
              op \in {"subscribe", "unsubscribe"}}

NextBusSteps ==
    \/ \E t \in BusThreads : \E call \in OuterCalls(t) : BusCalled(t, call)
    \/ \E t \in BusThreads : LockAcquired(t)
    \/ \E t \in BusThreads : SubscribeLocked(t)
    \/ \E t \in BusThreads : UnsubscribeLocked(t)
    \/ \E t \in BusThreads : SnapshotTaken(t)
    \/ \E t \in BusThreads : CallbackInvoked(t)
    \/ \E t \in BusThreads : PublishReturned(t)
    \/ \E t \in BusThreads : HandlerCalled(t)
    \/ \E t \in BusThreads : HandlerReturned(t)

\* the event bus with its calls interleaved step by step
SpecBusSteps == Init /\ [][NextBusSteps]_vars

\* the calls made to the store and the bus from outside a handler: the
\* server's thread calls the mutators, the main thread subscribes the
\* handlers of state_changed, reads the bank and moves it
StoreCalls(t) ==
    IF t = "main"
    THEN {Call(op, "state_changed", cb, None) :
              op \in {"subscribe", "unsubscribe"}, cb \in {"reader", "writer"}}
         \cup {Call("get_bank_tracks", None, None, None),
               Call("mutator", None, "set_bank", None)}
    ELSE {Call("mutator", None, m, None) : m \in Mutators}

NextStoreSteps ==
    \/ \E t \in BusThreads : \E call \in StoreCalls(t) : StoreCalled(t, call)
    \/ \E t \in BusThreads : LockAcquired(t)
    \/ \E t \in BusThreads : SubscribeLocked(t)
    \/ \E t \in BusThreads : UnsubscribeLocked(t)
    \/ \E t \in BusThreads : SnapshotTaken(t)
    \/ \E t \in BusThreads : CallbackInvoked(t)
    \/ \E t \in BusThreads : PublishReturned(t)
    \/ \E t \in BusThreads : HandlerCalled(t)
    \/ \E t \in BusThreads : HandlerReturned(t)
    \/ \E t \in BusThreads : StoreLockAcquired(t)
    \/ \E t \in BusThreads : MutatorLocked(t)
    \/ \E t \in BusThreads : MutatorPublished(t)
    \/ \E t \in BusThreads : MutatorReturned(t)
    \/ \E t \in BusThreads : BankTracksRead(t)

\* the store and the bus with their calls interleaved step by step
SpecStoreSteps == Init /\ [][NextStoreSteps]_vars

\* the feedback messages that change a track of the model
TrackFeedbacks ==
    {Feedback(r.handler, r.field, n, 0, 0, p) :
         r \in TrackRoutes, n \in TrackNums, p \in Payloads}

NextBankSpec ==
    \/ Run
    \/ \E fb \in TrackFeedbacks : FeedbackReceived(fb)
    \/ NextBankCalled
    \/ PrevBankCalled

\* the bank cursor moved back and forth while feedback changes the tracks
SpecBank == Init /\ [][NextBankSpec]_vars

NextLeds ==
    \/ \E b \in LedButtons, color \in LedColors : LedCalled(ButtonSetColor(hw, b, color))
    \/ LedCalled(ButtonClearAll(hw))
    \/ \E pad \in PadIds, color \in LedColors : LedCalled(PadSetColor(hw, pad, color))
    \/ \E color \in LedColors : LedCalled(PadSetAll(hw, color))
    \/ LedCalled(PadInvalidateCache(hw))

\* the two LED managers under every sequence of their calls
SpecLeds == Init /\ [][NextLeds]_vars

NextClip ==
    \/ ConnectFailed
    \/ \E slot_reply \in FirstSlotReplies, matrix_reply \in FirstMatrixReplies :
           Connected(slot_reply, matrix_reply)
    \/ \E reply \in SlotReplies : SlotReplyProcessed(reply)
    \/ \E reply \in MatrixReplies :
           \E slot_reply \in FirstSlotReplies, matrix_reply \in FirstMatrixReplies :
               MatrixReplyProcessed(reply, slot_reply, matrix_reply)

\* the mirror under every sequence of replies of the two streams
SpecClip == Init /\ [][NextClip]_vars

NextGrid ==
    \/ \E matrix_reply \in LoopFirstReplies : Connected(Reply(TRUE, <<>>), matrix_reply)
    \/ \E reply \in GridSlotReplies : SlotReplyProcessed(reply)
    \/ \E a \in GridArgs : GridRead(a[1], a[2], a[3], a[4])

\* the mirror under the play states of the engine, and the grid read from it
SpecGrid == Init /\ [][NextGrid]_vars

NextTrigger ==
    \/ \E matrix_reply \in LoopFirstReplies : Connected(Reply(TRUE, <<>>), matrix_reply)
    \/ ConnectFailed
    \/ StartStreaming
    \/ Stop
    \/ \E op \in TriggerOps, s \in Slots, outcome \in RpcOutcomes :
           TriggerCalled(op, s[1], s[2], outcome)

\* the trigger operations on a client that is connected, or not, or stopped
SpecTrigger == Init /\ [][NextTrigger]_vars

\* buttons of the display loop's model: two mode buttons and a button of
\* the upper row, whose handler in session mode reads daemon.playtime
LoopButtons == {"session", "mix", UPPER_ROW[1]}

NextLoop ==
    \/ Run
    \/ RunFailed
    \/ LoopTested
    \/ \E send_ok \in BOOLEAN : FrameRendered(send_ok)
    \/ Slept
    \/ SignalReceived
    \/ ShutdownDone
    \/ \E button \in LoopButtons : ButtonPressed(button)

\* the steps run() takes by itself
RunStep ==
    \/ LoopTested
    \/ \E send_ok \in BOOLEAN : FrameRendered(send_ok)
    \/ Slept
    \/ ShutdownDone

\* the display loop with input events between its steps; the event loop
\* keeps running the task
SpecLoop == Init /\ [][NextLoop]_vars /\ WF_vars(RunStep)

\* the feedbacks the router delivers in the model of its start and stop
RouterFeedbacks ==
    {Feedback(r.handler, r.field, 1, 0, 0, p) : r \in TrackRoutes, p \in Payloads}

NextRouter ==
    \/ \E bind_ok \in BOOLEAN : RouterStarted(bind_ok)
    \/ RouterStopped
    \/ Run
    \/ \E fb \in RouterFeedbacks : (router.threads > 0 /\ FeedbackReceived(fb))

\* start and stop of the feedback server in every order
SpecRouter == Init /\ [][NextRouter]_vars

NextParse ==
    \/ \E slot_reply \in FirstSlotReplies, matrix_reply \in FirstMatrixReplies :
           Connected(slot_reply, matrix_reply)
    \/ \E reply \in GridSlotReplies : SlotReplyLocked(reply)
    \/ \E data \in {SmallMatrix, WideMatrix} : ParseBegun(data)
    \/ ColumnParsed
    \/ ParseEnded
    \/ GridRead(8, 8, 0, 0)

\* the matrix thread rebuilding the content map while the main thread
\* reads the grid
SpecParse == Init /\ [][NextParse]_vars

\* feedback for send, FX and parameter numbers 0, 1 and 2 of track 1, with
\* the value 0.8
IndexFeedbacks ==
    {Feedback("_on_send_float", "volume", 1, k, 0, Payload("float", 800)) : k \in 0..2}
      \cup {Feedback("_on_fx_name", "name", 1, k, 0, Payload("str", 0)) : k \in 0..2}
      \cup {Feedback("_on_fx_param_value", "value", 1, k, j, Payload("float", 800)) :
                k \in 0..2, j \in 0..2}

NextIndex ==
    \/ Run
    \/ \E fb \in IndexFeedbacks : FeedbackReceived(fb)

\* the store under feedback that names sends, FX and parameters by number
SpecIndex == Init /\ [][NextIndex]_vars

\* /track/n/automode with the values 2.0, 4.0, 7.0 and -1.0 and with a
\* string that is no number, and /track/n/select with 1.0
AutomodeFeedbacks ==
    {Feedback("_on_track_automode", "automode", n, 0, 0, p) :
         n \in TrackNums,
         p \in {Payload("float", 2 * One), Payload("float", 4 * One),
                Payload("float", 7 * One), Payload("float", 0 - One),
                Payload("str", 0)}}
      \cup {Feedback("_on_track_select", "selected", n, 0, 0, Payload("float", One)) :
                n \in TrackNums}

NextAutomode ==
    \/ Run
    \/ \E fb \in AutomodeFeedbacks : FeedbackReceived(fb)
    \/ ButtonPressedCounted("automate")

\* the automation mode under feedback and presses of Automate
SpecAutomode == Init /\ [][NextAutomode]_vars

NextStreams ==
    \/ \E matrix_reply \in LoopFirstReplies : Connected(Reply(TRUE, <<>>), matrix_reply)
    \/ ConnectFailed
    \/ StartStreaming
    \/ Stop
    \/ \E s \in Loops : LoopChecked(s)
    \/ \E s \in Loops : StreamOpened(s)
    \/ \E s \in Loops : UpdateReceived(s)
    \/ \E s \in Loops : StreamFailed(s)
    \/ \E s \in Loops : StreamEnded(s)
    \/ \E s \in Loops : StreamCancelled(s)
    \/ \E s \in Loops : StopSeen(s)
    \/ \E reply \in LoopSlotReplies : SlotUpdateProcessed(reply)
    \/ \E reply \in LoopMatrixReplies : MatrixUpdateProcessed(reply)
    \/ \E s \in Loops : ErrorHandled(s)
    \/ \E s \in Loops : BackoffEnded(s)

\* the steps a started thread takes by itself; the server's replies, the
\* breaking of a stream and the calls of the application are not among them
LoopStep(s) ==
    \/ LoopChecked(s)
    \/ StreamOpened(s)
    \/ StreamCancelled(s)
    \/ StopSeen(s)
    \/ ErrorHandled(s)
    \/ BackoffEnded(s)
    \/ (s = "slot" /\ \E reply \in LoopSlotReplies : SlotUpdateProcessed(reply))
    \/ (s = "matrix" /\ \E reply \in LoopMatrixReplies : MatrixUpdateProcessed(reply))

\* the streaming loops, each thread scheduled again and again
SpecStreams ==
    Init /\ [][NextStreams]_vars /\ \A s \in Loops : WF_vars(LoopStep(s))

NextNudge ==
    \/ \E op \in NudgeOps, v \in NudgeStarts : NudgeBegin(op, v)
    \/ \E increment \in (-MaxIncrement)..MaxIncrement : NudgeCalled(increment)

\* the nudge operations of the command client, called again and again
SpecNudge == Init /\ [][NextNudge]_vars

(***************************************************************************)
(* Properties of the mode dispatcher.                                      *)
(***************************************************************************)
LifecycleCalls == SelectSeq(trace, IsLifecycleCall)

IsOnButtonCall(c) == c.call = "on_button"

OnButtonCalls == SelectSeq(trace, IsOnButtonCall)

\* C1: once run() has entered the initial mode, after any sequence of button
\* events the enter and exit calls of every mode have alternated starting
\* with enter, exactly the active mode has an enter not followed by an exit,
\* and switch_mode to the active mode (Mix pressed in the mixer) has called
\* neither enter nor exit.
C1_LifecyclePaired ==
    running =>
        /\ pairing_ok
        /\ \A m \in Modes : open[m] <=> (m = mode)
        /\ (ev.kind = "button" /\ ev.button = "mix" /\ ev.mode_before = "mixer")
               => LifecycleCalls = <<>>

\* Mix pressed while the mixer, entered again after another mode, is active
C1_Witness ==
    /\ running
    /\ ev.kind = "button" /\ ev.button = "mix" /\ ev.mode_before = "mixer"
    /\ mode = "mixer" /\ open["mixer"]
    /\ trace = <<>>

\* C2: toggle_scale_mode called twice in a row from a non-overlay mode M
\* leaves M active and the previous-mode pointer cleared, and the lifecycle
\* calls of the pair are exactly M.exit, Scale.enter, Scale.exit, M.enter.
C2_ToggleRoundTrip ==
    toggle_pair.stage = 2 =>
        /\ mode = toggle_pair.m
        /\ previous_mode = None
        /\ toggle_pair.calls = <<ModeCall(toggle_pair.m, "exit", None),
                                 ModeCall("scale", "enter", None),
                                 ModeCall("scale", "exit", None),
                                 ModeCall(toggle_pair.m, "enter", None)>>

\* the mode the overlay returns to: self._previous_mode or self._mixer_mode
SavedMode == IF ev.saved # None THEN ev.saved ELSE "mixer"

\* C3: a button that is neither globally bound nor handled by the overlay,
\* pressed while the scale overlay is active, is within that one event given
\* to the overlay's on_button once, the overlay is exited, the saved mode is
\* entered and active, and the saved mode's on_button gets the button once.
C3_UnhandledRedelivered ==
    (ev.kind = "button" /\ ev.mode_before = "scale" /\ ev.button \in OtherButtons)
        => /\ trace = <<ModeCall("scale", "on_button", ev.button),
                        ModeCall("scale", "exit", None),
                        ModeCall(SavedMode, "enter", None),
                        ModeCall(SavedMode, "on_button", ev.button)>>
           /\ mode = SavedMode
           /\ ~ev.raised

PageButtons == {"page_left", "page_right"}

\* C4: a press of a globally bound button is never passed to the active
\* mode's on_button, except that Page Left and Page Right, pressed while the
\* scale overlay is active, are passed to the overlay's on_button exactly
\* once and move no bank.
C4_GlobalIntercepted ==
    (ev.kind = "button" /\ ev.button \in GlobalButtons) =>
        IF ev.button \in PageButtons /\ ev.mode_before = "scale"
        THEN trace = <<ModeCall("scale", "on_button", ev.button)>> /\ sent = <<>>
        ELSE OnButtonCalls = <<>>

\* Page Right pressed while the scale overlay is active
C4_Witness ==
    /\ ev.kind = "button" /\ ev.button = "page_right" /\ ev.mode_before = "scale"
    /\ mode = "scale"
    /\ trace = <<ModeCall("scale", "on_button", "page_right")>>

\* C4 as stated: no globally bound button reaches a mode's on_button
C4_AsStated ==
    (ev.kind = "button" /\ ev.button \in GlobalButtons) => OnButtonCalls = <<>>

SentSet == {sent[i] : i \in 1..Len(sent)}

\* the last event was a lower-row press that called select_and_arm_track
SelectAndArmInvoked ==
    /\ ev.kind = "button" /\ InSeq(LOWER_ROW, ev.button) /\ ~ev.raised
    /\ \E m \in SentSet : m.op = "select"

\* C8: select_and_arm_track(t), called by a mode for a lower-row button with
\* any bank offset, sends select=0 and recarm=0 for each of the other seven
\* tracks bank_offset+1 .. bank_offset+8 and select=1 and recarm=1 for t only.
C8_ExclusiveInBank ==
    SelectAndArmInvoked =>
        LET t == bank_offset + 1 + IndexOf(LOWER_ROW, ev.button)
        IN  /\ Msg("select", t, 0, 1) \in SentSet
            /\ Msg("recarm", t, 0, 1) \in SentSet
            /\ \A m \in SentSet : m.val = 1 => m.track = t
            /\ \A i \in (bank_offset + 1)..(bank_offset + BANK_SIZE) :
                   i # t => /\ Msg("select", i, 0, 0) \in SentSet
                            /\ Msg("recarm", i, 0, 0) \in SentSet

(***************************************************************************)
(* Properties of the feedback router and the store.                        *)
(***************************************************************************)
AllInUnit(seq, field) == \A i \in 1..Len(seq) : InUnit(seq[i][field])

\* C5: after any sequence of feedback messages and encoder nudges every
\* normalized value of the store is in [0,1]: a track's volume, pan, vu, vu_l
\* and vu_r, the master's volume, pan and vu, a send's volume and pan, and
\* an FX parameter's value.
C5_NormalizedInUnit ==
    /\ \A n \in TrackNums :
           /\ \A f \in {"volume", "pan", "vu", "vu_l", "vu_r"} : InUnit(tracks[n][f])
           /\ AllInUnit(tracks[n].sends, "volume")
           /\ AllInUnit(tracks[n].sends, "pan")
           /\ \A i \in 1..Len(fx[n]) : AllInUnit(fx[n][i].params, "value")
    /\ \A f \in {"volume", "pan", "vu"} : InUnit(master[f])

\* the handlers whose value is a number or a flag
NumericHandlers ==
    {"_on_transport", "_on_stop", "_on_tempo_raw", "_on_master_float",
     "_on_track_float", "_on_track_bool", "_on_track_select", "_on_track_automode",
     "_on_track_color", "_on_send_float", "_on_fx_param_value"}

\* the handlers of the normalized fields
NormalizedHandlers ==
    {"_on_master_float", "_on_track_float", "_on_send_float", "_on_fx_param_value"}

\* the payload cannot be coerced to the handler's value type, or is a number
\* outside [0,1] for a normalized field
Malformed(fb) ==
    \/ fb.handler \in NumericHandlers /\ fb.payload.kind = "str"
    \/ fb.handler \in NormalizedHandlers /\ fb.payload.kind # "str"
           /\ ~InUnit(fb.payload.val)

\* C6: a feedback message whose payload cannot be coerced to its handler's
\* value type, or is a number outside [0,1] for a normalized field, is
\* discarded silently: the handler does not raise, the store is as before,
\* and no state_changed event is published.
C6_MalformedDiscarded ==
    (ev.kind = "feedback" /\ Malformed(ev.fb))
        => ~ev.raised /\ ~ev.changed /\ published = 0

TrackHandlers == {r.handler : r \in TrackRoutes}

\* the value a handler of /track/n/<field> stores for a payload it accepts
AcceptedValue(fb) ==
    CASE fb.handler = "_on_track_float" -> fb.payload.val
      [] fb.handler \in {"_on_track_bool", "_on_track_select"} ->
            ~(-One < fb.payload.val /\ fb.payload.val < One)
      [] fb.handler = "_on_track_str" -> <<fb.payload.kind, fb.payload.val>>
      [] fb.handler = "_on_track_automode" -> ToInt(fb.payload).v
      [] OTHER -> UnpackColor(ToInt(fb.payload).v)

StatedStep(op) ==
    CASE op \in {"track_volume", "master_volume", "send_volume"} -> 15
      [] op = "track_pan" -> 20
      [] OTHER -> 10

NudgeReturnsClampedAndSent ==
    nudge.calls > 0 =>
        /\ nudge.ret = Max(0, Min(One, nudge.given + nudge.inc * StatedStep(nudge.op)))
        /\ nudge.sent_val = nudge.ret
        /\ InUnit(nudge.ret)

C10_EveryHandlerInOrder ==
    done.event_type # None =>
        /\ done.invoked = done.snapshot
        /\ ~done.propagated

\* h2, which raises, is subscribed between h1 and h3, and all three ran
C10_Witness ==
    /\ done.event_type = "state_changed"
    /\ done.snapshot = <<"h1", "h2", "h3">>
    /\ done.invoked = <<"h1", "h2", "h3">>
    /\ ~done.propagated

(***************************************************************************)
(* Properties of the event bus, step by step.                              *)
(***************************************************************************)
IsPrefix(a, b) == Len(a) <= Len(b) /\ SubSeq(b, 1, Len(a)) = a

PublishFrames(t) ==
    {bus.stacks[t][k] : k \in {j \in 1..Len(bus.stacks[t]) :
                                  bus.stacks[t][j].op = "publish"}}

\* C11: the handlers one publish call invokes are the subscriber list as it
\* was when the snapshot was taken, whatever subscribe and unsubscribe calls
\* a handler or another thread makes during the dispatch; and the bus lock
\* is held only inside the with blocks, never by a thread that runs a
\* handler or waits for the lock, so a handler that calls the bus goes on.
C11_SnapshotDecidesInvoked ==
    /\ bus.finished.n # 0 =>
           /\ bus.finished.invoked = bus.finished.snapshot
           /\ ~bus.finished.propagated
    /\ \A t \in BusThreads :
           /\ \A f \in PublishFrames(t) :
                  f.pc = "loop" => IsPrefix(f.invoked, f.snapshot)
           /\ bus.lock = t => (Busy(t) /\ Top(t).pc = "locked")

\* a dispatch is under way, its first handler has returned, a handler is
\* still to be invoked, and the subscriber list is no longer the snapshot
C11_Witness ==
    \E t \in BusThreads :
        /\ Busy(t)
        /\ Top(t).op = "publish"
        /\ Top(t).pc = "loop"
        /\ Top(t).i > 1
        /\ Top(t).i <= Len(Top(t).snapshot)
        /\ Top(t).snapshot # subscribers[Top(t).event_type]

NonDecreasing(seq) == \A a, b \in 1..Len(seq) : a < b => seq[a] <= seq[b]

\* C12: with every publish call made on one thread, each subscriber
\* receives the events of a type in the order of the publish calls, the
\* calls made from inside a handler included.
C12_PublishOrderKept ==
    \A cb \in Callbacks : NonDecreasing(bus.received[cb])

BankIsWindow ==
    /\ bank_offset >= 0
    /\ bank_offset % 8 = 0
    /\ Len(GetBankTracks(Cur)) = 8
    /\ \A k \in 1..8 :
           /\ GetBankTracks(Cur)[k].index = bank_offset + k
           /\ (bank_offset + k) \in TrackNums =>
                  GetBankTracks(Cur)[k] = tracks[bank_offset + k]

\* C14: after any sequence of next_bank and prev_bank calls the bank offset
\* is a non-negative multiple of 8, prev_bank at offset 0 leaves it 0, and
\* get_bank_tracks returns the 8 tracks of indices offset+1 .. offset+8 in
\* order, as the store holds them.
C14_BankWindow ==
    /\ BankIsWindow
    /\ [][/\ BankIsWindow'
          /\ (ev'.kind = "prev_bank" /\ bank_offset = 0) => bank_offset' = 0
          /\ (ev'.kind = "prev_bank" /\ bank_offset > 0) =>
                 bank_offset' = bank_offset - 8
          /\ ev'.kind = "next_bank" => bank_offset' = bank_offset + 8]_vars

\* prev_bank was called at offset 0, after the bank had been moved and a
\* feedback message had renamed a track
C14_Witness ==
    /\ ev.kind = "prev_bank"
    /\ ~ev.changed
    /\ bank_offset = 0
    /\ tracks[2].name = Text("str", 0)

(***************************************************************************)
(* Properties of the LED caches.                                           *)
(***************************************************************************)
\* set(id, v) wrote if and only if the cache did not hold v
WroteIfDiffers(call) ==
    call.op = "set_color" => (call.wrote = 1 <=> call.before # call.color)

\* the last two calls were set(id, v) with the same id and the same v
SameSetTwice(prev, last) ==
    /\ prev.op = "set_color"
    /\ last.op = "set_color"
    /\ prev.id = last.id
    /\ prev.color = last.color

\* C15, as amended: set(id, v) issues a hardware write if and only if the
\* cached value for id differs from v, and afterwards the cache holds v;
\* two consecutive set(id, v) issue one write when the cache did not hold v
\* before the first and none when it did; invalidate_cache issues no write,
\* and the next set(id, v) of every pad, for every color v, issues a write.
C15_WriteIffCacheDiffers ==
    /\ WroteIfDiffers(hw.button_last)
    /\ WroteIfDiffers(hw.pad_last)
    /\ hw.button_last.op = "set_color" =>
           hw.states[hw.button_last.id] = hw.button_last.color
    /\ hw.pad_last.op = "set_color" => hw.colors[hw.pad_last.id] = hw.pad_last.color
    /\ SameSetTwice(hw.button_prev, hw.button_last) =>
           hw.button_prev.wrote + hw.button_last.wrote
               = IF hw.button_prev.before = hw.button_prev.color THEN 0 ELSE 1
    /\ SameSetTwice(hw.pad_prev, hw.pad_last) =>
           hw.pad_prev.wrote + hw.pad_last.wrote
               = IF hw.pad_prev.before = hw.pad_prev.color THEN 0 ELSE 1
    /\ hw.pad_last.op = "invalidate_cache" => hw.pad_last.wrote = 0
    /\ (hw.pad_last.op = "set_color" /\ hw.pad_last.stale) => hw.pad_last.wrote = 1

\* the cache held "red" for a pad, invalidate_cache was called, another pad
\* was set, and set(pad, "red") then issued a write
C15_Witness ==
    /\ hw.pad_last = LedCall("set_color", <<7, 7>>, "red", 1, "", TRUE)
    /\ hw.pad_prev.op = "set_color"
    /\ hw.pad_prev.id = <<0, 0>>
    /\ SameSetTwice(hw.button_prev, hw.button_last)
    /\ hw.button_prev.wrote = 1
    /\ hw.button_last.wrote = 0

\* C15 as stated: two consecutive set(id, v) issue exactly one write.
C15_AsStated ==
    /\ SameSetTwice(hw.button_prev, hw.button_last) =>
           hw.button_prev.wrote + hw.button_last.wrote = 1
    /\ SameSetTwice(hw.pad_prev, hw.pad_last) =>
           hw.pad_prev.wrote + hw.pad_last.wrote = 1

(***************************************************************************)
(* Properties of the clip engine mirror.                                   *)
(***************************************************************************)
FromStream == pt.last.stream \in {"slot", "matrix"}

\* C16: processing one reply of the slot stream or of the matrix stream,
\* whatever updates it holds, publishes at most one playtime_state_changed
\* event.
C16_AtMostOneEvent ==
    FromStream => Len(pt.mirror.events) <= 1

\* C17: every reply whose processing changes what get_grid_state,
\* column_names, num_columns or num_rows report publishes at least one
\* playtime_state_changed event; a slot reply that only moves slot
\* (column 2, row 3) to Playing makes grid[3][2] Playing and fires the event.
C17_ChangePublished ==
    /\ (FromStream /\ Observable(pt.mirror) # pt.last.before) =>
           Len(pt.mirror.events) >= 1
    /\ (/\ pt.last.stream = "slot"
        /\ pt.last.reply.updates =
               <<SlotUpdate(2, 3, "play_state", "PLAYING", SlotJson(FALSE, 0))>>) =>
           GetGridState(pt.mirror)[3][2] = SLOT_PLAYING

\* get_slot_state for every slot of the model
SlotStatesOf(m) ==
    [s \in Slots |-> IF m.slot_states[s] = Missing THEN SLOT_EMPTY
                     ELSE m.slot_states[s]]

\* the clip mirror: slot states, has_content, column names and dimensions
ClipMirror(m) ==
    <<SlotStatesOf(m), m.slot_has_content, m.column_names, m.num_columns,
      m.num_rows>>

\* C18: after an everything-changed signal has been processed the clip
\* mirror is the one a newly connected client builds from the same replies
\* to the refetch (both fetches answered): nothing held before the signal
\* survives unless the refetch reports it.
C18_RefetchReplaces ==
    (/\ pt.last.stream = "matrix"
     /\ Len(pt.last.reply.updates) = 1
     /\ HasSignal(pt.last.reply)
     /\ pt.last.slot_reply.ok
     /\ pt.last.matrix_reply.ok) =>
        ClipMirror(pt.mirror)
            = ClipMirror(FetchInitialState(NewMirror, pt.last.slot_reply,
                                           pt.last.matrix_reply))

(***************************************************************************)
(* Properties of the streaming loops.                                      *)
(***************************************************************************)
\* C19: while the client is running, a loop whose stream failed sleeps the
\* backoff and then reopens the stream, by itself and after any number of
\* failures in a row, and a reply of the new stream is applied to the
\* mirror and published as a reply of the first stream is.
C19_ReconnectsAfterError ==
    /\ \A s \in Loops :
           (streams.pc[s] = "error" /\ streams.running)
               ~> (streams.pc[s] = "read" \/ ~streams.running)
    /\ [][/\ \A s \in Loops :
                 (streams.pc[s] = "error" /\ streams.running
                      /\ streams'.pc[s] # "error") => streams'.pc[s] = "backoff"
          /\ (streams.pc["slot"] = "got" /\ streams'.pc["slot"] = "read") =>
                 pt'.mirror = SlotStreamBody(pt.mirror, pt'.last.reply)
          /\ (streams.pc["matrix"] = "got" /\ streams'.pc["matrix"] = "read") =>
                 pt'.mirror = MatrixStreamBody(pt.mirror, pt'.last.reply,
                                               Failed, Failed)]_vars

\* the slot stream failed twice in a row, and a reply of the third stream
\* has been applied and published
C19_Witness ==
    /\ streams.running
    /\ streams.failures["slot"] = 2
    /\ streams.applied_at["slot"] = 2
    /\ pt.last.stream = "slot"
    /\ pt.mirror.events = <<"slots">>
    /\ pt.mirror.slot_states[<<2, 3>>] = SLOT_PLAYING

\* C20: after stop() both streaming loops terminate, wherever stop() found
\* them: blocked in a read, holding a reply, about to open a stream or in
\* backoff.
C20_LoopsTerminate ==
    streams.stopped ~> (\A s \in Loops : streams.pc[s] = "done")

\* stop() found the slot loop blocked in a read and the matrix loop in
\* backoff, and both have ended
C20_Witness ==
    /\ streams.stopped
    /\ streams.at_stop["slot"] = "read"
    /\ streams.at_stop["matrix"] = "backoff"
    /\ \A s \in Loops : streams.pc[s] = "done"

(***************************************************************************)
(* Properties of the play-state mapping and of the grid query.             *)
(***************************************************************************)
ScheduledStates ==
    {"SCHEDULED_FOR_PLAY_START", "SCHEDULED_FOR_PLAY_RESTART",
     "SCHEDULED_FOR_PLAY_STOP", "SCHEDULED_FOR_RECORD_START",
     "SCHEDULED_FOR_RECORD_STOP"}

\* C21: a slot whose play state arrives as one of the five scheduled
\* variants is mirrored as Queued, and one that arrives as Paused is
\* mirrored as Stopped.
C21_ScheduledIsQueued ==
    (pt.last.stream = "slot" /\ pt.last.reply.updates[1].field = "play_state") =>
        LET su == pt.last.reply.updates[1]
            mirrored == pt.mirror.slot_states[<<su.col, su.row>>]
        IN  /\ su.play_state \in ScheduledStates => mirrored = SLOT_QUEUED
            /\ su.play_state = "PAUSED" => mirrored = SLOT_STOPPED

\* what the grid is to show for slot (col, row) of mirror m
GridEntry(m, col, row) ==
    IF <<col, row>> \notin Slots \/ m.slot_states[<<col, row>>] = Missing
    THEN SLOT_EMPTY
    ELSE IF m.slot_states[<<col, row>>] = SLOT_STOPPED /\ ~m.slot_has_content[<<col, row>>]
    THEN SLOT_EMPTY
    ELSE m.slot_states[<<col, row>>]

GridAsMirror(g) ==
    /\ Len(g.result) = g.num_rows
    /\ \A r \in 0..(g.num_rows - 1) :
           /\ Len(g.result[r + 1]) = g.num_cols
           /\ \A c \in 0..(g.num_cols - 1) :
                  /\ g.result[r + 1][c + 1] =
                         GridEntry(g.mirror, c + g.col_offset, r + g.row_offset)
                  /\ g.result[r + 1][c + 1] = SLOT_STOPPED =>
                         g.mirror.slot_has_content[<<c + g.col_offset,
                                                     r + g.row_offset>>]

\* C22: get_grid_state returns num_rows rows of num_cols entries, entry
\* (r, c) being the mirrored state of slot (c + col_offset, r + row_offset),
\* Empty when the slot is unknown or is Stopped without content; the call
\* leaves the mirror as it is.
C22_GridIsSnapshot ==
    [][pt'.grid # pt.grid =>
           /\ GridAsMirror(pt'.grid)
           /\ pt'.grid.mirror = pt.mirror
           /\ pt'.mirror = pt.mirror]_vars

\* a grid read at offsets (2, 3) of a mirror whose slot (2, 3) is Stopped
\* without content
C22_Witness ==
    /\ pt.grid.num_cols = 8
    /\ pt.grid.col_offset = 2
    /\ pt.grid.row_offset = 3
    /\ pt.grid.mirror.slot_states[<<2, 3>>] = SLOT_STOPPED
    /\ ~pt.grid.mirror.slot_has_content[<<2, 3>>]
    /\ pt.grid.result[1][1] = SLOT_EMPTY

(***************************************************************************)
(* Properties of a matrix batch.                                           *)
(***************************************************************************)
\* the updates of a batch that are persistent data json.loads accepts
ParsedAt(updates) ==
    {i \in 1..Len(updates) :
         updates[i].field = "complete_persistent_data" /\ updates[i].data.ok}

\* the name the track lists of a batch give track id, None if they give none
NameInBatch(updates, id) ==
    LET naming == {i \in 1..Len(updates) :
                       /\ updates[i].field = "track_list"
                       /\ \E k \in 1..Len(updates[i].tracks) :
                              updates[i].tracks[k].id = id}
    IN  IF naming = {} THEN None
        ELSE LET i == CHOOSE j \in naming : \A l \in naming : l <= j
                 k == CHOOSE j \in 1..Len(updates[i].tracks) :
                          /\ updates[i].tracks[j].id = id
                          /\ \A l \in (j + 1)..Len(updates[i].tracks) :
                                 updates[i].tracks[l].id # id
             IN  updates[i].tracks[k].name

\* C23: after a matrix batch that holds a track list and persistent data,
\* in either order, every column on a track the batch names carries the
\* name the batch gives that track.
C23_TrackListFirst ==
    (pt.last.stream = "matrix" /\ ~HasSignal(pt.last.reply)
         /\ ParsedAt(pt.last.reply.updates) # {}) =>
        LET updates == pt.last.reply.updates
            last == CHOOSE i \in ParsedAt(updates) : \A j \in ParsedAt(updates) : j <= i
            columns == updates[last].data.columns
        IN  \A k \in 1..Len(columns) :
                (columns[k].track # "" /\ NameInBatch(updates, columns[k].track) # None) =>
                    /\ k \in DOMAIN pt.mirror.column_names
                    /\ pt.mirror.column_names[k] = NameInBatch(updates, columns[k].track)

\* the first batch of the matrix stream holds the persistent data and then
\* the track list; the client did not know track t1 before (its one column
\* on t1 was named by position), and the third column now carries its name
C23_Witness ==
    /\ pt.count = 1
    /\ pt.last.stream = "matrix"
    /\ pt.last.before[2] = <<Text("Col", 1)>>
    /\ Len(pt.last.reply.updates) = 2
    /\ pt.last.reply.updates[1].field = "complete_persistent_data"
    /\ pt.last.reply.updates[2].field = "track_list"
    /\ Len(pt.mirror.column_names) = 3
    /\ pt.mirror.column_names[3] = Text("Drums", 0)

(***************************************************************************)
(* Properties of the trigger operations.                                   *)
(***************************************************************************)
\* C24: a trigger operation returns to its caller whatever the RPC does
\* (success, RPC error, timeout), issues exactly its one RPC when the client
\* is connected and none when it is not.
C24_TriggerNeverRaises ==
    [][pt'.trig # pt.trig =>
           /\ ~pt'.trig.raised
           /\ pt'.trig.connected = pt.connected
           /\ pt.connected => pt'.trig.rpcs = <<RpcOf(pt'.trig.op)>>
           /\ ~pt.connected => pt'.trig.rpcs = <<>>
           /\ pt'.mirror = pt.mirror /\ pt'.connected = pt.connected]_vars

\* stop_column met a timeout and returned, and the client is still connected
C24_Witness ==
    /\ pt.connected
    /\ pt.trig.op = "stop_column"
    /\ pt.trig.connected
    /\ pt.trig.outcome = "timeout"
    /\ pt.trig.rpcs = <<RpcOf("stop_column")>>
    /\ ~pt.trig.raised

(***************************************************************************)
(* Properties of the display loop.                                         *)
(***************************************************************************)
\* C25: an exception of the active mode's render, or of a handler the bus
\* calls for an input event, is caught where it is raised: after a frame
\* that failed the loop goes on to the next frame, a handler that raised
\* leaves the loop and the running flag as they were, the loop leaves its
\* body only by finding the running flag cleared, and shutdown has run once
\* when the loop has ended and not before.
C25_FaultsIsolated ==
    /\ (loop.pc = "sleep" /\ loop.last_raised) ~> (loop.pc = "render" \/ ~running)
    /\ [](loop.shutdowns = IF loop.pc = "ended" THEN 1 ELSE 0)
    /\ [][/\ (loop.pc = "render" /\ loop'.pc # "render") => loop'.pc = "sleep"
          /\ (loop'.pc = "finally" /\ loop.pc # "finally") =>
                 (loop.pc = "test" /\ ~running)
          /\ (ev' # ev /\ ev'.kind = "button") =>
                 (loop' = loop /\ running' = running)]_vars

\* in session mode a button handler raised and two frames failed; the loop
\* sent frames before, went on, and ended with one shutdown when the signal
\* handler cleared the flag
C25_Witness ==
    /\ mode = "session"
    /\ ev.kind = "button"
    /\ ev.raised
    /\ loop.errors = 2
    /\ loop.frames >= 1
    /\ loop.pc = "ended"
    /\ loop.shutdowns = 1
    /\ ~running

(***************************************************************************)
(* Properties of the feedback server's start and stop.                     *)
(***************************************************************************)
\* the state of the router: its server, sockets and threads
RouterState(r) == <<r.server, r.sockets, r.threads>>

\* C26: stop() leaves no receive loop of the router's server running; stop()
\* on a router that is not listening and start() on one that is listening
\* change nothing, raise nothing, and make no second socket or thread.
C26_StartStopIdempotent ==
    [][router' # router =>
           /\ ~router'.last.raised
           /\ (router'.last.op = "stop" /\ router.server # "serving") =>
                  (router'.threads = router.threads
                       /\ router'.sockets = router.sockets)
           /\ (router'.last.op = "stop" /\ router.server = "serving") =>
                  router'.server = "shut" /\ router'.threads = router.threads - 1
           /\ (router'.last.op = "start" /\ router.server = "serving") =>
                  RouterState(router') = RouterState(router)]_vars

(***************************************************************************)
(* Properties of the store's lock.                                         *)
(***************************************************************************)
\* C27: no event handler assigns store data (a track field, a track's
\* sends, FX, transport, master, bank_offset, selected_track) outside the
\* store's lock.
C27_WritesUnderLock == unlocked = {}

(***************************************************************************)
(* Properties of the mirror's lock.                                        *)
(***************************************************************************)
\* the slots the grid is to show as Stopped throughout a parse: Stopped
\* with content before it, and with content in the data parsed
StoppedThroughout(parse) ==
    {s \in Slots :
         /\ parse.before.slot_states[s] = SLOT_STOPPED
         /\ parse.before.slot_has_content[s]
         /\ ContentOf(parse.data.columns)[s]}

\* C28: a get_grid_state that runs while _parse_matrix_persistent_data
\* rebuilds the content map never reports as Empty a slot that is Stopped
\* with content both before and after the rebuild.
C28_GridNeverHalfRebuilt ==
    [][(pt'.grid # pt.grid /\ pt.parse.pc = "locked") =>
           \A s \in StoppedThroughout(pt.parse) :
               pt'.grid.result[s[2] + 1][s[1] + 1] # SLOT_EMPTY]_vars

\* the step-by-step parse ends in the mirror the whole parse gives
ParseStepsAgree ==
    [][(pt.parse.pc = "locked" /\ pt'.parse.pc = "idle") =>
           [pt'.mirror EXCEPT !.events = <<>>] =
               [ParseMatrixPersistentData(pt.parse.before, pt.parse.data)
                    EXCEPT !.events = <<>>]]_vars

(***************************************************************************)
(* Properties of the lists the store grows on demand.                      *)
(***************************************************************************)
\* entry j of list after is entry j of list before, or the default entry
\* New when before has no entry j
KeptOrDefault(before, after, j, New) ==
    after[j] = IF j <= Len(before) THEN before[j] ELSE New

\* C29: a feedback message for send k of a track is handled without an
\* exception, leaves the track with at least k sends, sets the field of
\* send k and leaves every other send as it was, or as its default if it is
\* new; likewise for FX f and its parameter p.
C29_GrowsAndSetsOnlyAddressed ==
    [][(ev' # ev /\ ev'.kind = "feedback") =>
           LET fb == ev'.fb
               k == fb.sub
           IN  /\ ~ev'.raised
               /\ fb.handler = "_on_send_float" =>
                      LET before == tracks[fb.track].sends
                          after == tracks'[fb.track].sends
                      IN  /\ k \in 1..Len(after)
                          /\ Len(after) = Max(Len(before), k)
                          /\ after[k][fb.field] = fb.payload.val
                          /\ \A j \in 1..Len(after) :
                                 j # k => KeptOrDefault(before, after, j, NewSend(j))
               /\ fb.handler \in {"_on_fx_name", "_on_fx_param_value"} =>
                      LET before == fx[fb.track]
                          after == fx'[fb.track]
                      IN  /\ k \in 1..Len(after)
                          /\ Len(after) = Max(Len(before), k)
                          /\ \A j \in 1..Len(after) :
                                 j # k => KeptOrDefault(before, after, j, NewFX(j - 1))
                          /\ fb.handler = "_on_fx_param_value" =>
                                 /\ fb.sub2 \in 1..Len(after[k].params)
                                 /\ after[k].params[fb.sub2].value = fb.payload.val]_vars

(***************************************************************************)
(* Properties of the automation mode.                                      *)
(***************************************************************************)
\* C30: the automation mode of every track is one of 0..4 (Trim, Read,
\* Touch, Write, Latch), whatever feedback and Automate presses came.
C30_AutomodeInRange ==
    \A n \in TrackNums : tracks[n].automode \in 0..4

\* each Automate press sets the selected track's mode to the next of the cycle
AutomatePressAdvances ==
    [][(ev' # ev /\ ev'.kind = "button" /\ ev'.button = "automate"
            /\ selected_track \in TrackNums) =>
           tracks'[selected_track].automode =
               (tracks[selected_track].automode + 1) % 5]_vars

(***************************************************************************)
(* Feedback server: the dispatcher (reaper/osc_server.py, _setup_handlers  *)
(* and the python-osc Dispatcher that start() hands to the server).        *)
(***************************************************************************)
\* an address is the sequence of its parts: /track/1/volume/str is
\* <<"track", "1", "volume", "str">>
Template(addr, handler, field) == [addr |-> addr, handler |-> handler, field |-> field]

\* _setup_handlers: the d.map calls, in their order
Templates ==
    << Template(<<"play">>, "_on_transport", "playing"),
       Template(<<"record">>, "_on_transport", "recording"),
       Template(<<"pause">>, "_on_transport", "paused"),
       Template(<<"repeat">>, "_on_transport", "repeat"),
       Template(<<"stop">>, "_on_stop", None),
       Template(<<"tempo", "raw">>, "_on_tempo_raw", "tempo"),
       Template(<<"tempo", "str">>, "_on_tempo_str", "tempo_str"),
       Template(<<"beat", "str">>, "_on_beat_str", "beat_str"),
       Template(<<"time", "str">>, "_on_time_str", "time_str"),
       Template(<<"master", "volume">>, "_on_master_float", "volume"),
       Template(<<"master", "pan">>, "_on_master_float", "pan"),
       Template(<<"master", "vu">>, "_on_master_float", "vu"),
       Template(<<"master", "volume", "str">>, "_on_master_str", "volume_str"),
       Template(<<"track", "*", "volume">>, "_on_track_float", "volume"),
       Template(<<"track", "*", "pan">>, "_on_track_float", "pan"),
       Template(<<"track", "*", "vu">>, "_on_track_float", "vu"),
       Template(<<"track", "*", "vu", "L">>, "_on_track_float", "vu_l"),
       Template(<<"track", "*", "vu", "R">>, "_on_track_float", "vu_r"),
       Template(<<"track", "*", "mute">>, "_on_track_bool", "mute"),
       Template(<<"track", "*", "solo">>, "_on_track_bool", "solo"),
       Template(<<"track", "*", "recarm">>, "_on_track_bool", "rec_arm"),
       Template(<<"track", "*", "select">>, "_on_track_select", None),
       Template(<<"track", "*", "name">>, "_on_track_str", "name"),
       Template(<<"track", "*", "volume", "str">>, "_on_track_str", "volume_str"),
       Template(<<"track", "*", "pan", "str">>, "_on_track_str", "pan_str"),
       Template(<<"track", "*", "color">>, "_on_track_color", None),
       Template(<<"track", "*", "automode">>, "_on_track_automode", None),
       Template(<<"track", "*", "send", "*", "volume">>, "_on_send_float", "volume"),
       Template(<<"track", "*", "send", "*", "pan">>, "_on_send_float", "pan"),
       Template(<<"track", "*", "send", "*", "name">>, "_on_send_str", "name"),
       Template(<<"track", "*", "send", "*", "volume", "str">>, "_on_send_str",
                "volume_str"),
       Template(<<"track", "*", "fx", "*", "name">>, "_on_fx_name", None),
       Template(<<"track", "*", "fx", "*", "fxparam", "*", "value">>,
                "_on_fx_param_value", None),
       Template(<<"track", "*", "fx", "*", "fxparam", "*", "name">>,
                "_on_fx_param_name", None) >>

\* d.set_default_handler(self._on_unknown)
DefaultHandler == Template(<<>>, "_on_unknown", None)

HasWildcard(t) == \E i \in 1..Len(t) : t[i] = "*"

\* the Dispatcher's test of a mapped address t against the address a of a
\* message: the two are equal, or t has a * and, each * standing for one
\* part, t matches the beginning of a (the test is a re.match of the
\* pattern made from t, which is not anchored at its end: this is how "dB
\* values leak through wildcard matching", as _on_track_float puts it)
TemplateMatches(t, a) ==
    \/ t = a
    \/ /\ HasWildcard(t)
       /\ Len(t) <= Len(a)
       /\ \A i \in 1..Len(t) : t[i] = "*" \/ t[i] = a[i]

\* the handlers the Dispatcher gives for an address: those of every mapped
\* address that matches, in the order of the map, and the default handler
\* when none matches
HandlersForAddress(a) ==
    LET Test(t) == TemplateMatches(t.addr, a)
        matched == SelectSeq(Templates, Test)
    IN  IF matched = <<>> THEN <<DefaultHandler>> ELSE matched

Digits == {"0", "1", "2"}

\* int(m.group(i))
DigitVal(s) == CASE s = "1" -> 1 [] s = "2" -> 2 [] OTHER -> 0

\* _TRACK_RE, _SEND_RE, _FX_RE, _FX_PARAM_RE: whether the address matches
\* the expression the handler applies to it
AddressRe(handler, a) ==
    LET track == Len(a) >= 3 /\ a[1] = "track" /\ a[2] \in Digits
        sub(kind) == track /\ Len(a) >= 5 /\ a[3] = kind /\ a[4] \in Digits
    IN  CASE handler \in {"_on_track_float", "_on_track_bool", "_on_track_select",
                          "_on_track_str", "_on_track_color", "_on_track_automode"} ->
                 track
          [] handler \in {"_on_send_float", "_on_send_str"} -> sub("send")
          [] handler = "_on_fx_name" -> sub("fx")
          [] handler \in {"_on_fx_param_value", "_on_fx_param_name"} ->
                 sub("fx") /\ Len(a) >= 7 /\ a[5] = "fxparam" /\ a[6] \in Digits
          [] OTHER -> TRUE

\* the call of one handler with the address and the value of the message:
\* the numbers are those its expression finds in the address
CallHandler(w, t, a, p) ==
    IF t.handler = "_on_unknown" \/ ~AddressRe(t.handler, a) THEN w
    ELSE RouteFeedback(w, Feedback(t.handler, t.field,
                                   IF Len(a) >= 2 THEN DigitVal(a[2]) ELSE 0,
                                   IF Len(a) >= 4 THEN DigitVal(a[4]) ELSE 0,
                                   IF Len(a) >= 6 THEN DigitVal(a[6]) ELSE 0, p))

\* the server calls the handlers one after the other; an exception of one
\* ends the handling of the message
RECURSIVE CallHandlersFrom(_, _, _, _, _)
CallHandlersFrom(w, hs, i, a, p) ==
    IF i > Len(hs) \/ w.exc THEN [w |-> w, called |-> SubSeq(hs, 1, i - 1)]
    ELSE CallHandlersFrom(CallHandler(w, hs[i], a, p), hs, i + 1, a, p)

\* a message arrives on the server thread and is dispatched by its address
MessageReceived(a, p) ==
    /\ running
    /\ router.threads > 0
    /\ ops < MaxStoreOps
    /\ LET r == CallHandlersFrom(Cur, HandlersForAddress(a), 1, a, p)
       IN  /\ Commit([r.w EXCEPT !.exc = FALSE])
           /\ ev' = Event("message", None, mode, previous_mode, r.w.exc, NoFeedback,
                          0, StoreOf(r.w) # StoreOf(Cur))
           /\ router' = [router EXCEPT !.address = a, !.delivered = r.called]
    /\ ops' = ops + 1
    /\ toggle_pair' = NoPair
    /\ UNCHANGED <<bus, hw, pt, streams, loop, pads, busVars, nudge>>

\* the messages of the model: addresses with one handler, addresses with a
\* string-valued or deeper sibling, and an address nothing is mapped to
Addresses ==
    { <<"play">>, <<"master", "volume">>, <<"master", "volume", "str">>,
      <<"track", "1", "volume">>, <<"track", "1", "volume", "str">>,
      <<"track", "2", "pan">>, <<"track", "2", "pan", "str">>,
      <<"track", "1", "vu">>, <<"track", "1", "vu", "L">>,
      <<"track", "1", "mute">>, <<"track", "1", "name">>,
      <<"track", "1", "send", "1", "volume">>,
      <<"track", "1", "send", "1", "volume", "str">>,
      <<"track", "1", "fx", "1", "name">>,
      <<"track", "1", "fx", "1", "fxparam", "1", "value">>,
      <<"device", "track", "count">> }

NextDispatch ==
    \/ Run
    \/ \E a \in Addresses, p \in Payloads : MessageReceived(a, p)

SpecDispatch == Init /\ [][NextDispatch]_vars

\* C31: every message is given to exactly one handler, the first mapped
\* address that matches or the default handler when none does; a message
\* for /track/n/volume/str is not given to _on_track_float.
C31_ExactlyOneHandler ==
    router.address # <<>> =>
        /\ Len(router.delivered) = 1
        /\ router.delivered[1] = HandlersForAddress(router.address)[1]
        /\ \A i \in 1..Len(router.delivered) :
               (Len(router.address) = 4 /\ router.address[4] = "str") =>
                   router.delivered[i].handler # "_on_track_float"

\* a message for /track/n/vu/L changes no field but vu_l (it does not hold:
\* the handler mapped to /track/*/vu is called with it as well)
VuLeftOnly ==
    [][(router'.address = <<"track", "1", "vu", "L">> /\ ev' # ev
            /\ ev'.kind = "message") =>
           tracks'[1].vu = tracks[1].vu]_vars

(***************************************************************************)
(* Transport LEDs, step by step (main.py _on_state_changed and run,        *)
(* push2/buttons.py set_transport_state and set_color).                    *)
(***************************************************************************)
ledRest == <<ops, busVars, nudge, bus, pt, streams, loop, router, pads>>

\* "green" if playing else "dark_gray", "red" if recording else "dark_gray"
TransportColor(button_const, on) ==
    IF ~on THEN "dark_gray" ELSE IF button_const = "play" THEN "green" ELSE "red"

\* a transport message is handled on a thread of the feedback server:
\* update_transport sets the flag under the store's lock, releases the lock
\* and publishes state_changed, which calls _on_state_changed on this thread
TransportUpdated(t, field, value) ==
    /\ t # "main"
    /\ running
    /\ router.threads > 0
    /\ ops < MaxStoreOps
    /\ hw.led.thread[t].pc = "idle"
    /\ Commit([UpdateTransport(Cur, field, value) EXCEPT !.exc = FALSE])
    /\ ev' = Event("transport", None, mode, previous_mode, FALSE, NoFeedback, 0,
                   transport[field] # value)
    /\ toggle_pair' = NoPair
    /\ ops' = ops + 1
    /\ hw' = [hw EXCEPT !.led.thread[t].pc = "changed"]
    /\ UNCHANGED <<busVars, nudge, bus, pt, streams, loop, router, pads>>

\* run(), after the initial mode is entered: set_transport_state is called
RunSetsLeds ==
    /\ running
    /\ ~hw.led.main_done
    /\ hw.led.thread["main"].pc = "idle"
    /\ hw' = [hw EXCEPT !.led.thread["main"].pc = "changed", !.led.main_done = TRUE]
    /\ UNCHANGED <<daemonVars, ledRest>>

\* the arguments of set_transport_state are read from the store, with no lock
FlagsRead(t) ==
    /\ hw.led.thread[t].pc = "changed"
    /\ hw' = [hw EXCEPT !.led.thread[t] =
                  [pc |-> "play_test", playing |-> transport.playing,
                   recording |-> transport.recording, color |-> None]]
    /\ UNCHANGED <<daemonVars, ledRest>>

\* the color a thread sets on a button: the one computed from the flags it read
ColorWritten(th, button_const) ==
    TransportColor(button_const,
                   IF button_const = "play" THEN th.playing ELSE th.recording)

\* set_color: if self._states.get(button_const) == color: return
CacheTested(t, button_const, pc, pc_write, pc_after) ==
    /\ hw.led.thread[t].pc = pc
    /\ hw' = [hw EXCEPT !.led.thread[t].pc =
                  IF hw.led.states[button_const] =
                         ColorWritten(hw.led.thread[t], button_const)
                  THEN pc_after ELSE pc_write]
    /\ UNCHANGED <<daemonVars, ledRest>>

\* set_color: self._push.buttons.set_button_color(button_const, color)
DeviceWritten(t, button_const, pc, pc_next) ==
    /\ hw.led.thread[t].pc = pc
    /\ hw' = [hw EXCEPT !.led.device[button_const] =
                            ColorWritten(hw.led.thread[t], button_const),
                        !.led.thread[t].pc = pc_next]
    /\ UNCHANGED <<daemonVars, ledRest>>

\* set_color: self._states[button_const] = color
CacheWritten(t, button_const, pc, pc_next) ==
    /\ hw.led.thread[t].pc = pc
    /\ hw' = [hw EXCEPT !.led.states[button_const] =
                            ColorWritten(hw.led.thread[t], button_const),
                        !.led.thread[t].pc = pc_next]
    /\ UNCHANGED <<daemonVars, ledRest>>

\* one step of a thread inside set_transport_state
LedStep(t) ==
    \/ FlagsRead(t)
    \/ CacheTested(t, "play", "play_test", "play_write", "record_test")
    \/ DeviceWritten(t, "play", "play_write", "play_cache")
    \/ CacheWritten(t, "play", "play_cache", "record_test")
    \/ CacheTested(t, "record", "record_test", "record_write", "idle")
    \/ DeviceWritten(t, "record", "record_write", "record_cache")
    \/ CacheWritten(t, "record", "record_cache", "idle")

TransportFields == {"playing", "recording"}

NextTransportLeds ==
    \/ Run
    \/ RunSetsLeds
    \/ \E t \in LedThreads, field \in TransportFields, value \in BOOLEAN :
           TransportUpdated(t, field, value)
    \/ \E t \in LedThreads : LedStep(t)

\* every thread that has begun to set the LEDs goes on
SpecTransportLeds ==
    Init /\ [][NextTransportLeds]_vars /\ \A t \in LedThreads : WF_vars(LedStep(t))

\* no thread is about to set, or setting, the transport LEDs
LedsQuiet == \A t \in LedThreads : hw.led.thread[t].pc = "idle"

\* C32: when every transport message has been processed and no thread is
\* inside set_transport_state, the Play LED is green exactly if the store's
\* playing flag is set and the Record LED is red exactly if its recording
\* flag is set.
C32_LedsFollowTransport ==
    LedsQuiet =>
        /\ hw.led.device["play"] = "green" <=> transport.playing
        /\ hw.led.device["record"] = "red" <=> transport.recording

(***************************************************************************)
(* Pad and button events on the pads (main.py _on_pad_pressed,             *)
(* _on_pad_released, _on_button).                                          *)
(***************************************************************************)
padsRest == <<bus, hw, pt, streams, loop, router, busVars, nudge, ops>>

\* pad_pressed: _on_pad_pressed gives the pad to the active mode
PadPressed(pad) ==
    /\ running
    /\ pads.events < MaxPadEvents
    /\ pad \notin pads.down
    /\ LET p0 == [pads EXCEPT !.down = @ \cup {pad}, !.events = @ + 1,
                              !.since_exit = FALSE,
                              !.last = PadEvent("pressed", pad, NoNote, NoNote)]
           r == OnPadPressed(Cur, p0, pad)
       IN  /\ Commit([r.w EXCEPT !.exc = FALSE])
           /\ ev' = Event("pad_pressed", None, mode, previous_mode, r.w.exc, NoFeedback,
                          0, FALSE)
           /\ pads' = [r.p EXCEPT !.last.on = r.p.on[pad]]
    /\ toggle_pair' = NoPair
    /\ UNCHANGED padsRest

\* pad_released: _on_pad_released gives the pad to the mode that is active now
PadReleased(pad) ==
    /\ running
    /\ pad \in pads.down
    /\ LET p0 == [pads EXCEPT !.down = @ \ {pad}, !.on[pad] = NoNote,
                              !.since_exit = FALSE,
                              !.last = PadEvent("released", pad, pads.on[pad], NoNote)]
           r == OnPadReleased(Cur, p0, pad)
       IN  /\ Commit([r.w EXCEPT !.exc = FALSE])
           /\ ev' = Event("pad_released", None, mode, previous_mode, r.w.exc, NoFeedback,
                          0, FALSE)
           /\ pads' = r.p
    /\ toggle_pair' = NoPair
    /\ UNCHANGED padsRest

\* button_pressed, with what the button does to the pads
PadsButtonPressed(button) ==
    /\ running
    /\ pads.events < MaxPadEvents
    /\ ButtonWithinBounds(button)
    /\ LET w == OnButton(Cur, button)
       IN  /\ Commit([w EXCEPT !.exc = FALSE])
           /\ ev' = Event("button", button, mode, previous_mode, w.exc, NoFeedback, 0,
                          StoreOf(w) # StoreOf(Cur))
           /\ toggle_pair' = NextTogglePair(w, mode)
           /\ pads' = [ButtonOnPads([pads EXCEPT !.since_exit = FALSE], button,
                                    w.trace) EXCEPT
                          !.events = @ + 1,
                          !.last = PadEvent("button", <<>>, NoNote, NoNote)]
    /\ UNCHANGED padsRest

\* the buttons of the pads' model: octave, scale overlay, mode select, and
\* the upper-row buttons that are the overlay's root buttons and the drum
\* mode's bank buttons
PadsButtons ==
    {"octave_up", "octave_down", "scale", "note", "mix", "session",
     UPPER_ROW[1], UPPER_ROW[2]}

NextPads ==
    \/ Run
    \/ \E pad \in PlayPads : PadPressed(pad)
    \/ \E pad \in PlayPads : PadReleased(pad)
    \/ \E button \in PadsButtons : PadsButtonPressed(button)

SpecPads == Init /\ [][NextPads]_vars

\* C33: when a pad whose press sent a note-on is released, the release
\* sends a note-off on the same channel for the same note, whatever button
\* events came between the press and the release.
C33_NoteOffMatchesNoteOn ==
    (pads.last.kind = "released" /\ pads.last.on # NoNote) =>
        pads.last.off = pads.last.on

\* C34: while the drum mode is active, after every event every pad shows
\* on the device the color the drum layout gives it; and while the session
\* mode is active no pad shows a highlight or a note-grid color left by the
\* PadManager.
C34_PadsShowModeLayout ==
    /\ (running /\ mode = "drum") =>
           \A pad \in PlayPads : pads.device[pad] = DrumColor(pads, pad)
    /\ (running /\ mode = "session") =>
           \A pad \in PlayPads :
               pads.device[pad] \notin {"white", pads.grid_colors[pad]}

\* ---------------------------------------------------------------------------
\* The saved previous mode (main.py:89-112, 240-267)
\* ---------------------------------------------------------------------------

\* C35: after every button event the saved previous mode is set exactly when
\* the scale overlay is the active mode, and it is then a mode other than the
\* overlay.
C35_PreviousModeIffOverlay ==
    running =>
        /\ (previous_mode # None) <=> (mode = "scale")
        /\ previous_mode # "scale"

\* ---------------------------------------------------------------------------
\* The session mode's registration on the bus (session.py:50-67,
\* event_bus.py:19-31)
\* ---------------------------------------------------------------------------

\* C36: after every sequence of mode switches the bus holds exactly one
\* registration of the session mode's playtime_state_changed handler while
\* the session mode is active, and none while it is not.
C36_SessionHandlerOnce ==
    running => Len(pads.handlers) = (IF mode = "session" THEN 1 ELSE 0)

\* ---------------------------------------------------------------------------
\* The session mode's handler on a streaming thread (session.py:171-194,
\* client.py:295-297)
\* ---------------------------------------------------------------------------

\* a daemon with a playtime attribute, whose read returns
PlaytimeReturns(p) == FALSE

\* pt = daemon.playtime in _update_pad_colors: Push2ReaperDaemon.__init__
\* sets no such attribute and the read raises AttributeError
PlaytimeRaises(p) == TRUE

\* PAD_COLORS of the state of a slot that get_grid_state gives: SLOT_EMPTY
PlaytimePadColor == "dark_gray"

\* the handler returns to publish, which calls the next callback of its
\* snapshot
PlaytimeHandled(p, kind) ==
    [p EXCEPT !.handler = IF p.handler.left > 1
                          THEN [pc |-> "test", left |-> p.handler.left - 1]
                          ELSE HandlerIdle,
              !.last = PadEvent(kind, <<>>, NoNote, NoNote)]

\* one step of _on_playtime_changed on the streaming thread: the test of
\* self._daemon, the second read of self._daemon for the call, and
\* _update_pad_colors; "except Exception: pass" catches what the call raises
OnPlaytimeChanged(p) ==
    CASE p.handler.pc = "test" ->
             IF p.daemon THEN [p EXCEPT !.handler.pc = "call"]
             ELSE PlaytimeHandled(p, "handler_skipped")
      [] p.handler.pc = "call" ->
             IF p.daemon THEN [p EXCEPT !.handler.pc = "update"]
             ELSE PlaytimeHandled(p, "handler_raised")
      [] p.handler.pc = "update" ->
             IF PlaytimeRaises(p) THEN PlaytimeHandled(p, "handler_raised")
             ELSE PlaytimeHandled(
                      [p EXCEPT !.device = [pad \in PlayPads |-> PlaytimePadColor]],
                      "handler_wrote")

\* a streaming thread publishes playtime_state_changed: publish copies the
\* list of callbacks and calls them one after the other
PlaytimePublished ==
    /\ running
    /\ pads.events < MaxPadEvents
    /\ pads.handler.pc = "idle"
    /\ pads.handlers # <<>>
    /\ pads' = [pads EXCEPT !.handler = [pc |-> "test", left |-> Len(pads.handlers)],
                            !.events = @ + 1]
    /\ UNCHANGED <<daemonVars, padsRest>>

\* the streaming thread takes a step of the handler
HandlerStep ==
    /\ pads.handler.pc # "idle"
    /\ pads' = OnPlaytimeChanged(pads)
    /\ UNCHANGED <<daemonVars, padsRest>>

SessionButtons == {"session", "mix", "note", "scale"}

NextSession ==
    \/ Run
    \/ \E button \in SessionButtons : PadsButtonPressed(button)
    \/ \E pad \in PlayPads : PadPressed(pad)
    \/ PlaytimePublished
    \/ HandlerStep

\* the main thread's events interleaved with the steps of a streaming thread
SpecSession == Init /\ [][NextSession]_vars

ConnectCalled(ok) ==
    /\ streams.calls < MaxClientCalls
    /\ streams' = [streams EXCEPT !.channel = "open", !.calls = @ + 1]
    /\ pt' = [pt EXCEPT !.connected = ok]
    /\ UNCHANGED clientRest

\* start_streaming(): nothing unless connected; _running is set and a new
\* thread is started for each of the two loops
StartStreamingCalled ==
    /\ streams.calls < MaxClientCalls
    /\ streams' = IF pt.connected
                  THEN [streams EXCEPT !.running = TRUE, !.calls = @ + 1,
                                       !.threads = [s \in Loops |-> @[s] + 1]]
                  ELSE [streams EXCEPT !.calls = @ + 1]
    /\ UNCHANGED <<clientRest, pt>>

\* stop()
StopCalled ==
    /\ streams.calls < MaxClientCalls
    /\ streams' = [streams EXCEPT !.running = FALSE, !.channel = ChannelClosed(@),
                                  !.calls = @ + 1]
    /\ pt' = [pt EXCEPT !.connected = FALSE]
    /\ UNCHANGED clientRest

\* "while self._running" of a loop's thread finds the flag cleared: the
\* thread ends
ThreadEnded(s) ==
    /\ streams.threads[s] > 0
    /\ ~streams.running
    /\ streams' = [streams EXCEPT !.threads[s] = @ - 1]
    /\ UNCHANGED <<clientRest, pt>>

NextThreads ==
    \/ \E ok \in BOOLEAN : ConnectCalled(ok)
    \/ StartStreamingCalled
    \/ StopCalled
    \/ \E s \in Loops : ThreadEnded(s)

\* every sequence of connect, start_streaming and stop on one client
SpecThreads == Init /\ [][NextThreads]_vars

\* C38: at any time at most one thread runs the slot-stream loop and at most
\* one runs the matrix-stream loop.
C38_OneThreadPerLoop ==
    \A s \in Loops : streams.threads[s] <= 1

\* ---------------------------------------------------------------------------
\* The refetch after an everything-changed signal (client.py:256-281,
\* 355-382)
\* ---------------------------------------------------------------------------
RECURSIVE RefetchFrom(_, _, _)
RECURSIVE FetchedInitialState(_)

\* _fetch_initial_state, for the calls it makes: _fetch_initial_slots, whose
\* reply _process_slot_updates takes, and _fetch_initial_matrix, whose reply
\* goes to _process_matrix_updates; a call the server does not answer is
\* logged
FetchedInitialState(f) ==
    LET f1 == [f EXCEPT !.slots = @ + 1, !.matrix = @ + 1]
    IN  IF f.answers = <<>> THEN f1
        ELSE LET first == Head(f.answers)
                 f2 == [f1 EXCEPT !.answers = Tail(@)]
             IN  IF first.ok THEN RefetchFrom(f2, first.updates, 1) ELSE f2

\* the second pass of _process_matrix_updates, for the refetches it makes
RefetchFrom(f, updates, i) ==
    IF i > Len(updates) THEN f
    ELSE LET mu == updates[i]
         IN  RefetchFrom(IF mu.field = "everything_has_changed" /\ mu.flag
                         THEN FetchedInitialState(f) ELSE f,
                         updates, i + 1)

Signal == MatrixUpdate("everything_has_changed", <<>>, 0, NoJson, TRUE)

TempoUpdate == MatrixUpdate("tempo", <<>>, 140, NoJson, FALSE)

\* batches of the matrix stream that carry one signal
SignalBatches == {<<Signal>>, <<TempoUpdate, Signal>>}

\* what the server answers to a GetOccasionalMatrixUpdates of a refetch
RefetchReplies ==
    {Failed, Reply(TRUE, <<TempoUpdate>>), Reply(TRUE, <<Signal>>),
     Reply(TRUE, <<Signal, TempoUpdate>>)}

AnswersOf(n) == [1..n -> RefetchReplies]

\* the matrix stream delivers a batch with a signal and
\* _process_matrix_updates runs on it; answers are the server's answers to
\* the refetches, in order, and a refetch beyond them gets none
SignalBatchProcessed(batch, answers) ==
    /\ pt.count < MaxReplies
    /\ LET f == RefetchFrom([NoRefetch EXCEPT !.batch = batch, !.answers = answers],
                            batch, 1)
       IN  pt' = [pt EXCEPT !.count = @ + 1,
                            !.refetch = [f EXCEPT !.answers = answers]]
    /\ UNCHANGED <<clientRest, streams>>

NextRefetch ==
    \E batch \in SignalBatches, n \in 0..MaxAnswers :
        \E answers \in AnswersOf(n) : SignalBatchProcessed(batch, answers)

SpecRefetch == Init /\ [][NextRefetch]_vars

\* C39: processing a batch that carries one everything-changed signal makes
\* exactly one call of _fetch_initial_slots and one of _fetch_initial_matrix,
\* whatever the server answers to them.
C39_OneRefetch ==
    pt.refetch.batch # <<>> =>
        /\ pt.refetch.slots = 1
        /\ pt.refetch.matrix = 1

\* ---------------------------------------------------------------------------
\* The backoff of the streaming loops (client.py:285-326)
\* ---------------------------------------------------------------------------

\* C40: a loop that has asked for a stream before and is about to ask again
\* has slept its backoff since, whether the earlier stream broke or was
\* ended by the server.
C40_BackoffBetweenAttempts ==
    \A s \in Loops :
        streams.pc[s] = "open" => streams.since_open[s] # "no_sleep"

====
